---------------------------- MODULE Spec2Model ----------------------------
(***************************************************************************)
(* A model of the scan-ingestion core of xeno-mcp: the chunk store         *)
(* (src/src/scanner.rs), the tree hasher, the manifest builder and the     *)
(* HTTP handlers of src/src/routes/scanner.rs that drive them.             *)
(*                                                                         *)
(* Strings are sequences of character codes, so that the byte-wise         *)
(* ordering of Vec<String>::sort is the lexicographic order below.         *)
(* serde_json::Value is a record with one fixed set of fields; the field   *)
(* t tells arrays, objects and scalars apart.                              *)
(***************************************************************************)
EXTENDS Integers, Sequences, FiniteSets, TLC

(***************************************************************************)
(* Bounds of the model.                                                    *)
(***************************************************************************)
\* longest top-level array drawn as an input of the tree hasher
MaxTop == 3
\* POST and DELETE requests begun in one behaviour of Spec
MaxReq == 3
\* POST requests begun in one behaviour of SpecStore
MaxStoreReq == 3
\* POST and DELETE requests begun in one behaviour of SpecRescan
MaxRescanReq == 4
\* POST requests begun in one behaviour of SpecRace
MaxRaceReq == 2
\* latest reading of the clock
MaxClock == 1
\* requests of SpecCancel
MaxCancelReq == 3
\* POST requests of SpecQuery
MaxQueryReq == 2
\* largest max_depth of a query
MaxDepth == 2
\* POST requests and damages of SpecDamage
MaxDamageReq == 3
\* POST and DELETE requests of SpecList
MaxListReq == 4
\* POST and DELETE requests of SpecFrame
MaxFrameReq == 3
\* the largest --max-entries the server is started with
MaxEntries == 2
\* POST and DELETE requests of SpecAuth
MaxAuthReq == 3
\* POST and DELETE requests of SpecLog
MaxLogReq == 4
\* latest reading of the clock in SpecLog and SpecReaper, in seconds
MaxSeconds == 30
\* POST requests of SpecReaper
MaxReapReq == 2
\* lines and blocks of a script of SpecExtract
MaxExtractLines == 3
\* longest top-level array of the two trees of SpecNest
MaxNestTop == 2
\* POST requests of SpecClients
MaxClientReq == 3
\* stale clients a reaper pass of SpecLocks finds
MaxStale == 2
\* calls of the storage functions in one behaviour of SpecUnit
MaxUnitCalls == 3
\* lines of a script given to the outline extractor
MaxLines == 5

(***************************************************************************)
(* Characters and strings.                                                 *)
(***************************************************************************)
\* ':' of format!("{}:{}:{}", class, name, path)
Colon == 58
\* b"\n" fed to the hasher after every entry
Newline == 10

\* "A", "B", "C", "M", "P" and the dotted paths "W.A", "W.B", "W.C"
sA == <<65>>
sB == <<66>>
sC == <<67>>
sM == <<77>>
sP == <<80>>
sWA == <<87, 46, 65>>
sWB == <<87, 46, 66>>
sWC == <<87, 46, 67>>
sEmpty == <<>>

\* a < b in the byte-wise lexicographic order of Rust's String
RECURSIVE StrLess(_, _)
StrLess(a, b) ==
    IF b = <<>> THEN FALSE
    ELSE IF a = <<>> THEN TRUE
    ELSE IF Head(a) # Head(b) THEN Head(a) < Head(b)
    ELSE StrLess(Tail(a), Tail(b))

(***************************************************************************)
(* serde_json::Value.                                                      *)
(***************************************************************************)
\* Value::Array(items)
JArr(items) ==
    [t |-> "arr", class_name |-> sEmpty, name |-> sEmpty, path |-> sEmpty,
     children |-> <<>>, items |-> items, source |-> sEmpty, outline |-> <<>>]

\* Value::Object with the keys the scanner reads; a key that is absent or is
\* no string reads as "" (and_then(as_str).unwrap_or("")); children is the
\* optional "children" value: <<>> when the key is absent, else <<value>>
JObj(cls, nm, pth, kids) ==
    [t |-> "obj", class_name |-> cls, name |-> nm, path |-> pth,
     children |-> kids, items |-> <<>>, source |-> sEmpty, outline |-> <<>>]

\* Value::String(s): a scalar
JStr(s) ==
    [t |-> "str", class_name |-> sEmpty, name |-> s, path |-> sEmpty,
     children |-> <<>>, items |-> <<>>, source |-> sEmpty, outline |-> <<>>]

\* Value::Null
JNull ==
    [t |-> "null", class_name |-> sEmpty, name |-> sEmpty, path |-> sEmpty,
     children |-> <<>>, items |-> <<>>, source |-> sEmpty, outline |-> <<>>]

(***************************************************************************)
(* Tree hash (scanner.rs, compute_tree_hash and collect_hash_entries).     *)
(***************************************************************************)
\* format!("{}:{}:{}", class, name, path)
HashRecord(cls, nm, pth) == cls \o <<Colon>> \o nm \o <<Colon>> \o pth

RECURSIVE collect_hash_entries(_)
RECURSIVE collect_hash_items(_)
\* a traversal that stops at a node without a path
collect_hash_entries_path_only(node) ==
    IF node.t = "arr" THEN collect_hash_items(node.items)
    ELSE IF node.t = "obj" /\ node.path # sEmpty THEN
        <<HashRecord(node.class_name, node.name, node.path)>>
        \o (IF node.children # <<>>
               THEN collect_hash_entries(node.children[1])
               ELSE <<>>)
    ELSE <<>>

collect_hash_entries(node) ==
    IF node.t = "arr" THEN collect_hash_items(node.items)
    ELSE IF node.t = "obj" THEN
        (IF node.path # sEmpty
            THEN <<HashRecord(node.class_name, node.name, node.path)>>
            ELSE <<>>)
        \o (IF node.children # <<>>
               THEN collect_hash_entries(node.children[1])
               ELSE <<>>)
    ELSE <<>>

\* for item in arr { collect_hash_entries(item, out) }
collect_hash_items(items) ==
    IF items = <<>> THEN <<>>
    ELSE collect_hash_entries(Head(items)) \o collect_hash_items(Tail(items))

\* one step of a sort: e put before the first entry greater than it
RECURSIVE InsertSorted(_, _)
InsertSorted(e, s) ==
    IF s = <<>> THEN <<e>>
    ELSE IF StrLess(e, Head(s)) THEN <<e>> \o s
    ELSE <<Head(s)>> \o InsertSorted(e, Tail(s))

\* a sort left out: the entries stay in traversal order
SortEntriesUnsorted(entries) == entries

\* entries.sort()
RECURSIVE SortEntries(_)
SortEntries(entries) ==
    IF entries = <<>> THEN <<>>
    ELSE InsertSorted(Head(entries), SortEntries(Tail(entries)))

\* hasher.update(entry.as_bytes()); hasher.update(b"\n") for every entry
RECURSIVE HasherInput(_)
HasherInput(entries) ==
    IF entries = <<>> THEN <<>>
    ELSE Head(entries) \o <<Newline>> \o HasherInput(Tail(entries))

\* format!("{:x}", hasher.finalize()): SHA-256 taken as collision free, so a
\* digest stands for the bytes that were fed to the hasher
Sha256Hex(bytes) == [sha256_of |-> bytes]

\* the digest of the records in traversal order, without the sort
TreeHashInTraversalOrder(tree) ==
    Sha256Hex(HasherInput(collect_hash_entries(tree)))

compute_tree_hash(tree) ==
    Sha256Hex(HasherInput(SortEntries(collect_hash_entries(tree))))

(***************************************************************************)
(* Inputs of the tree hasher.                                              *)
(***************************************************************************)
nodeA == JObj(sP, sA, sWA, <<>>)
nodeB == JObj(sM, sB, sWB, <<>>)
\* a node with one level of children
nodeC == JObj(sM, sC, sWC, <<JArr(<<nodeB>>)>>)
\* a node without a path whose child has one
nodeD == JObj(sM, sA, sEmpty, <<JArr(<<nodeA>>)>>)

HashNodes == {nodeA, nodeB, nodeC, nodeD}

\* nodeC without its children
nodeE == JObj(sM, sC, sWC, <<>>)

RECURSIVE SeqsUpTo(_, _)
SeqsUpTo(S, n) ==
    IF n = 0 THEN {<<>>}
    ELSE LET shorter == SeqsUpTo(S, n - 1)
         IN  shorter \cup {Append(s, x) : s \in shorter, x \in S}

\* the sequence s with its elements at i and i + 1 exchanged
SwapAt(s, i) ==
    [k \in 1..Len(s) |-> IF k = i THEN s[i + 1] ELSE IF k = i + 1 THEN s[i] ELSE s[k]]

(***************************************************************************)
(* Configuration, storage layout and the file helpers of scanner.rs.       *)
(***************************************************************************)
\* place ids the model scans
Targets == {1, 2}

\* the readings of the clock (the variable now) per second: the heartbeat
\* times and the reaper's now are instants finer than a second
TicksPerSecond == 2

\* string_constants.len() < 50
MaxStringConstants == 50
\* top_level_vars.len() < 20
MaxTopLevelVars == 20

\* the reaper sleeps 10 seconds between two passes
ReaperPeriod == 10
\* let timeout_secs = 15
TimeoutSecs == 15

\* the usernames of the clients that report to /internal
Users == {"u"}

\* request handlers that can run at once (actix worker threads)
AllWorkers == {1, 2}

\* args.secret: Option<String>; the server is started with --secret k
args_secret == <<"k">>

\* the fixed file name of every scope, plus the full-source file of scripts
AppendFiles == {"tree.json", "scripts.json", "scripts_full.json",
                "remotes.json", "properties.json"}
ScopeFiles == AppendFiles \cup {"services.json"}

\* check_secret: Ok(()) or Err(401); provided is the X-Xeno-Secret header,
\* "" when it is absent
check_secret(provided) ==
    IF args_secret # <<>> THEN provided = args_secret[1] ELSE TRUE

\* serde_json::to_string_pretty(v): the text of a file. A text is the
\* document it spells when it is valid JSON; utf8 says fs::read_to_string can
\* read it, valid that serde_json can parse it
to_string_pretty(v) == [utf8 |-> TRUE, valid |-> TRUE, doc |-> v]

\* fs::read_to_string(&path) on an existing file: Ok exactly for UTF-8 bytes
read_to_string_ok(text) == text.utf8

\* n arrays, one inside the other, the innermost empty: [[[..[]..]]], a
\* Value written by its depth alone
JDeep(n) == [t |-> "deep", nest |-> n]

\* the larger of two numbers
Max2(a, b) == IF a >= b THEN a ELSE b

\* how deep the arrays and objects of a JSON document are nested, 0 for a
\* scalar; a stored manifest is an object that holds the scopes array, an
\* outline an object of arrays
RECURSIVE ValueDepth(_)
RECURSIVE ItemsDepth(_)
ValueDepth(v) ==
    IF "t" \notin DOMAIN v THEN 2
    ELSE IF v.t = "deep" THEN v.nest
    ELSE IF v.t = "arr" THEN 1 + ItemsDepth(v.items)
    ELSE IF v.t = "obj" THEN
        1 + Max2(IF v.children # <<>> THEN ValueDepth(v.children[1]) ELSE 0,
                 IF v.outline # <<>> THEN 2 ELSE 0)
    ELSE 0

ItemsDepth(items) ==
    IF items = <<>> THEN 0
    ELSE Max2(ValueDepth(Head(items)), ItemsDepth(Tail(items)))

\* serde_json::from_str stops with "recursion limit exceeded" when it enters
\* the 128th nested array or object
RecursionLimit == 128

\* serde_json::from_str(&content) is Ok: the text is JSON and nested less
\* deep than the recursion limit
from_str_ok(text) == text.valid /\ ValueDepth(text.doc) < RecursionLimit

\* serde_json::from_str::<Vec<Value>>(&content).unwrap_or_default()
from_str_vec(text) ==
    IF text.utf8 /\ from_str_ok(text) /\ text.doc.t = "arr" THEN text.doc.items ELSE <<>>

\* match items { Array(arr) => existing.extend(arr), other => existing.push(other) }
\* with the two arms exchanged into a push of the whole payload
ExtendWithPushOnly(existing, items) == Append(existing, items)

\* an extend that merges by identity: an element the array already holds
\* is not added again
ExtendWithMerge(existing, items) ==
    IF items.t = "arr"
        THEN existing \o SelectSeq(items.items,
                                   LAMBDA x : \A k \in DOMAIN existing : existing[k] # x)
        ELSE Append(existing, items)

\* match items { Array(arr) => existing.extend(arr), other => existing.push(other) }
ExtendWith(existing, items) ==
    IF items.t = "arr" THEN existing \o items.items ELSE Append(existing, items)

\* load_file on the file held in slot (<<>> when !path.exists()): Err when
\* the file is absent, cannot be read or does not parse, else Ok(value),
\* written <<>> and <<value>>
load_file(slot) ==
    IF slot = <<>> THEN <<>>
    ELSE IF read_to_string_ok(slot[1]) /\ from_str_ok(slot[1]) THEN <<slot[1].doc>> ELSE <<>>

\* game_exists: place_dir(..).join("manifest.json").exists()
game_exists(mf, place_id) == mf[place_id] # <<>>

\* source.lines().count()
CountNewlines(src) == Cardinality({i \in DOMAIN src : src[i] = Newline})

LineCount(src) ==
    CountNewlines(src) + (IF src # <<>> /\ src[Len(src)] # Newline THEN 1 ELSE 0)

\* the literal texts of the patterns: "local", "function", "require(" and
\* "game:GetService("
kwLocal == <<108, 111, 99, 97, 108>>
kwFunction == <<102, 117, 110, 99, 116, 105, 111, 110>>
kwRequire == <<114, 101, 113, 117, 105, 114, 101, 40>>
kwGetService == <<103, 97, 109, 101, 58, 71, 101, 116, 83, 101, 114, 118, 105, 99, 101, 40>>

\* the characters of a text: the scalar values up to U+00FF
Chars == 0..255

\* the character classes of the patterns, which are Unicode aware: \s, \w,
\* [\w.:], [^)] and [^"']
Space == {9, 10, 11, 12, 13, 32, 133, 160}
WordChar ==
    (48..57) \cup (65..90) \cup (97..122) \cup {95, 170, 181, 186}
        \cup (192..214) \cup (216..246) \cup (248..255)
NameChar == WordChar \cup {46, 58}
NotCloseParen == Chars \ {41}
Quote == {34, 39}
NotQuote == Chars \ Quote

\* str::len(): the bytes of the text in UTF-8, two for a character past
\* U+007F
Utf8Len(s) == Len(s) + Cardinality({i \in DOMAIN s : s[i] >= 128})

\* the text has the literal at position i
HasAt(src, i, lit) ==
    /\ i + Len(lit) - 1 <= Len(src)
    /\ src[i] = lit[1]
    /\ SubSeq(src, i, i + Len(lit) - 1) = lit

\* a greedy repetition of a character class from position i: the first
\* position at or after i that is past the end or not in the class
RunEnd(src, i, class) ==
    IF i > Len(src) THEN i
    ELSE CHOOSE k \in i..(Len(src) + 1) :
             /\ k = Len(src) + 1 \/ src[k] \notin class
             /\ \A j \in i..(k - 1) : src[j] \in class

\* str::trim() by its two ends
RECURSIVE TrimStart(_)
TrimStart(s) ==
    IF s # <<>> /\ Head(s) \in Space THEN TrimStart(Tail(s)) ELSE s

RECURSIVE TrimEnd(_)
TrimEnd(s) ==
    IF s # <<>> /\ s[Len(s)] \in Space THEN TrimEnd(SubSeq(s, 1, Len(s) - 1))
    ELSE s

trim(s) == TrimEnd(TrimStart(s))

NoMatch == <<>>
Match(start, end, c1, c2) ==
    <<[start |-> start, end |-> end, c1 |-> c1, c2 |-> c2]>>

\* function\s+([\w.:]+)\s*\(([^)]*)\) matched at position k, the match
\* reported as starting at position i
FunctionAt(src, i, k) ==
    IF ~HasAt(src, k, kwFunction) THEN NoMatch
    ELSE LET a == k + Len(kwFunction)
             b == RunEnd(src, a, Space)
             c == RunEnd(src, b, NameChar)
             d == RunEnd(src, c, Space)
             e == RunEnd(src, d + 1, NotCloseParen)
         IN  IF /\ b > a
                /\ c > b
                /\ d <= Len(src) /\ src[d] = 40
                /\ e <= Len(src)
                 THEN Match(i, e + 1, SubSeq(src, b, c - 1),
                            SubSeq(src, d + 1, e - 1))
                 ELSE NoMatch

\* fn_re at position i: (?:local\s+)?function\s+([\w.:]+)\s*\(([^)]*)\)
fn_re(src, i) ==
    LET b == RunEnd(src, i + Len(kwLocal), Space)
        withLocal == IF HasAt(src, i, kwLocal) /\ b > i + Len(kwLocal)
                         THEN FunctionAt(src, i, b) ELSE NoMatch
    IN  IF withLocal # NoMatch THEN withLocal ELSE FunctionAt(src, i, i)

\* require_re at position i: require\(([^)]+)\)
require_re(src, i) ==
    IF ~HasAt(src, i, kwRequire) THEN NoMatch
    ELSE LET a == i + Len(kwRequire)
             e == RunEnd(src, a, NotCloseParen)
         IN  IF e > a /\ e <= Len(src)
                 THEN Match(i, e + 1, SubSeq(src, a, e - 1), <<>>)
                 ELSE NoMatch

\* service_re at position i: game:GetService\(\s*["']([^"']+)["']\s*\)
service_re(src, i) ==
    IF ~HasAt(src, i, kwGetService) THEN NoMatch
    ELSE LET b == RunEnd(src, i + Len(kwGetService), Space)
             c == RunEnd(src, b + 1, NotQuote)
             d == RunEnd(src, c + 1, Space)
         IN  IF /\ b <= Len(src) /\ src[b] \in Quote
                /\ c > b + 1
                /\ c <= Len(src)
                /\ d <= Len(src) /\ src[d] = 41
                 THEN Match(i, d + 1, SubSeq(src, b + 1, c - 1), <<>>)
                 ELSE NoMatch

\* the first n matches from position p on: the leftmost match at or after
\* p, then the matches after its end, taken half of them at a time; at[i]
\* is the pattern's match at position i
RECURSIVE MatchesFrom(_, _, _)
MatchesFrom(at, p, n) ==
    LET starts == {i \in DOMAIN at : i >= p /\ at[i] # NoMatch}
    IN  IF n = 0 \/ starts = {} THEN <<>>
        ELSE IF n = 1 THEN at[CHOOSE x \in starts : \A y \in starts : x <= y]
        ELSE LET half == MatchesFrom(at, p, n \div 2)
             IN  IF Len(half) < n \div 2 THEN half
                 ELSE half \o MatchesFrom(at, half[Len(half)].end, n - n \div 2)

\* Regex::captures_iter: every match from position p on
captures_iter(at, p) == MatchesFrom(at, p, Len(at))

\* list.push(x) for each capture in turn, whether the list holds it or not
PushAlways(list, caps) == list \o caps

\* if !list.contains(&x) { list.push(x) }, for each capture in turn
RECURSIVE PushNew(_, _)
PushNew(list, caps) ==
    IF caps = <<>> THEN list
    ELSE PushNew(IF \E k \in DOMAIN list : list[k] = Head(caps)
                     THEN list ELSE Append(list, Head(caps)),
                 Tail(caps))

\* the method names of remote_re: FireServer, InvokeServer, OnClientEvent,
\* OnServerEvent, FireClient and OnClientInvoke
RemoteMethods ==
    {<<70, 105, 114, 101, 83, 101, 114, 118, 101, 114>>,
     <<73, 110, 118, 111, 107, 101, 83, 101, 114, 118, 101, 114>>,
     <<79, 110, 67, 108, 105, 101, 110, 116, 69, 118, 101, 110, 116>>,
     <<79, 110, 83, 101, 114, 118, 101, 114, 69, 118, 101, 110, 116>>,
     <<70, 105, 114, 101, 67, 108, 105, 101, 110, 116>>,
     <<79, 110, 67, 108, 105, 101, 110, 116, 73, 110, 118, 111, 107, 101>>}

\* the calls of instance_ref_re: FindFirstChild, WaitForChild,
\* FindFirstChildOfClass and FindFirstChildWhichIsA
LookupCalls ==
    {<<70, 105, 110, 100, 70, 105, 114, 115, 116, 67, 104, 105, 108, 100>>,
     <<87, 97, 105, 116, 70, 111, 114, 67, 104, 105, 108, 100>>,
     <<70, 105, 110, 100, 70, 105, 114, 115, 116, 67, 104, 105, 108, 100, 79,
       102, 67, 108, 97, 115, 115>>,
     <<70, 105, 110, 100, 70, 105, 114, 115, 116, 67, 104, 105, 108, 100, 87,
       104, 105, 99, 104, 73, 115, 65>>}

\* the noise set of generate_outline, from "Frame" to "application/json"
Noise ==
    {<<70, 114, 97, 109, 101>>,
     <<84, 101, 120, 116, 76, 97, 98, 101, 108>>,
     <<84, 101, 120, 116, 66, 117, 116, 116, 111, 110>>,
     <<73, 109, 97, 103, 101, 76, 97, 98, 101, 108>>,
     <<73, 109, 97, 103, 101, 66, 117, 116, 116, 111, 110>>,
     <<83, 99, 114, 101, 101, 110, 71, 117, 105>>,
     <<83, 99, 114, 111, 108, 108, 105, 110, 103, 70, 114, 97, 109, 101>>,
     <<85, 73, 76, 105, 115, 116, 76, 97, 121, 111, 117, 116>>,
     <<85, 73, 67, 111, 114, 110, 101, 114>>,
     <<85, 73, 80, 97, 100, 100, 105, 110, 103>>,
     <<85, 73, 83, 116, 114, 111, 107, 101>>,
     <<85, 73, 71, 114, 105, 100, 76, 97, 121, 111, 117, 116>>,
     <<85, 73, 65, 115, 112, 101, 99, 116, 82, 97, 116, 105, 111, 67, 111,
       110, 115, 116, 114, 97, 105, 110, 116>>,
     <<67, 111, 108, 111, 114, 51>>,
     <<86, 101, 99, 116, 111, 114, 51>>,
     <<67, 70, 114, 97, 109, 101>>,
     <<85, 68, 105, 109, 50>>,
     <<85, 68, 105, 109>>,
     <<114, 98, 120, 97, 115, 115, 101, 116, 105, 100, 58, 47, 47>>,
     <<67, 111, 110, 116, 101, 110, 116, 45, 84, 121, 112, 101>>,
     <<97, 112, 112, 108, 105, 99, 97, 116, 105, 111, 110, 47, 106, 115, 111,
       110>>}

\* the stoplist of top_level_vars: "v", "i" and "k"
FillerNames == {<<118>>, <<105>>, <<107>>}

\* remote_re at position i: [:.](FireServer|...|OnClientInvoke)\s*\(
remote_re(src, i) ==
    LET ms == {m \in RemoteMethods : HasAt(src, i + 1, m)}
    IN  IF src[i] \notin {58, 46} \/ ms = {} THEN NoMatch
        ELSE LET m == CHOOSE x \in ms : TRUE
                 b == RunEnd(src, i + 1 + Len(m), Space)
             IN  IF b <= Len(src) /\ src[b] = 40
                     THEN Match(i, b + 1, m, <<>>) ELSE NoMatch

\* instance_ref_re at position i:
\* (?:FindFirstChild|...|FindFirstChildWhichIsA)\(\s*["']([^"']+)["']
instance_ref_re(src, i) ==
    LET ms == {m \in LookupCalls :
                  /\ HasAt(src, i, m)
                  /\ i + Len(m) <= Len(src)
                  /\ src[i + Len(m)] = 40}
    IN  IF ms = {} THEN NoMatch
        ELSE LET m == CHOOSE x \in ms : TRUE
                 b == RunEnd(src, i + Len(m) + 1, Space)
                 c == RunEnd(src, b + 1, NotQuote)
             IN  IF /\ b <= Len(src) /\ src[b] \in Quote
                    /\ c > b + 1
                    /\ c <= Len(src)
                     THEN Match(i, c + 1, SubSeq(src, b + 1, c - 1), <<>>)
                     ELSE NoMatch

\* string_re at position i: ["']([^"']{2,60})["']
string_re(src, i) ==
    LET c == RunEnd(src, i + 1, NotQuote)
    IN  IF /\ src[i] \in Quote
           /\ c - (i + 1) \in 2..60
           /\ c <= Len(src)
            THEN Match(i, c + 1, SubSeq(src, i + 1, c - 1), <<>>)
            ELSE NoMatch

\* var_re at position i: (?m)^local\s+(\w+)\s*=
var_re(src, i) ==
    IF ~((i = 1 \/ src[i - 1] = Newline) /\ HasAt(src, i, kwLocal)) THEN NoMatch
    ELSE LET a == i + Len(kwLocal)
             b == RunEnd(src, a, Space)
             c == RunEnd(src, b, WordChar)
             d == RunEnd(src, c, Space)
         IN  IF /\ b > a
                /\ c > b
                /\ d <= Len(src) /\ src[d] = 61
                 THEN Match(i, d + 1, SubSeq(src, b, c - 1), <<>>)
                 ELSE NoMatch

\* the line of source.lines() that holds position i, found by its bounds
LineAt(src, i) ==
    LET starts == {k \in 1..i : k = 1 \/ src[k - 1] = Newline}
        ends == {k \in i..(Len(src) + 1) : k = Len(src) + 1 \/ src[k] = Newline}
        first == CHOOSE k \in starts : \A j \in starts : j <= k
        last == CHOOSE k \in ends : \A j \in ends : k <= j
    IN  SubSeq(src, first, last - 1)

\* what a match of remote_re contributes: its line trimmed when that has at
\* most 120 bytes, else the method name
RemoteEntry(src, m) ==
    LET trimmed == trim(LineAt(src, m.start))
    IN  IF Utf8Len(trimmed) <= 120 THEN trimmed ELSE m.c1

\* if !list.contains(&x) && list.len() < cap { list.push(x) }, for each
\* capture in turn: the first half of the captures, then the second,
\* which changes nothing once the list is full
RECURSIVE PushCapped(_, _, _)
PushCapped(list, caps, cap) ==
    IF caps = <<>> THEN list
    ELSE IF Len(caps) = 1 THEN
        IF (\E k \in DOMAIN list : list[k] = caps[1]) \/ Len(list) >= cap THEN list
        ELSE Append(list, caps[1])
    ELSE LET half == PushCapped(list, SubSeq(caps, 1, Len(caps) \div 2), cap)
         IN  IF Len(half) >= cap THEN half
             ELSE PushCapped(half, SubSeq(caps, Len(caps) \div 2 + 1, Len(caps)), cap)

\* the values the loops of generate_outline see, in the order of the text
FoundRequires(src) ==
    LET caps == captures_iter([i \in 1..Len(src) |-> require_re(src, i)], 1)
    IN  [k \in DOMAIN caps |-> trim(caps[k].c1)]

FoundServices(src) ==
    LET caps == captures_iter([i \in 1..Len(src) |-> service_re(src, i)], 1)
    IN  [k \in DOMAIN caps |-> caps[k].c1]

FoundRemotes(src) ==
    LET caps == captures_iter([i \in 1..Len(src) |-> remote_re(src, i)], 1)
    IN  [k \in DOMAIN caps |-> RemoteEntry(src, caps[k])]

FoundInstanceRefs(src) ==
    LET caps == captures_iter([i \in 1..Len(src) |-> instance_ref_re(src, i)], 1)
    IN  [k \in DOMAIN caps |-> caps[k].c1]

FoundStrings(src) ==
    LET caps == captures_iter([i \in 1..Len(src) |-> string_re(src, i)], 1)
    IN  [k \in DOMAIN caps |-> caps[k].c1]

FoundVars(src) ==
    LET caps == captures_iter([i \in 1..Len(src) |-> var_re(src, i)], 1)
    IN  [k \in DOMAIN caps |-> caps[k].c1]

\* generate_outline(source)
generate_outline(src) ==
    LET fns == captures_iter([i \in 1..Len(src) |-> fn_re(src, i)], 1)
        services == PushNew(<<>>, FoundServices(src))
    IN  [functions |-> [k \in DOMAIN fns |->
                           fns[k].c1 \o <<40>> \o trim(fns[k].c2) \o <<41>>],
         requires |-> PushNew(<<>>, FoundRequires(src)),
         services |-> services,
         remote_accesses |-> PushNew(<<>>, FoundRemotes(src)),
         instance_refs |-> PushNew(<<>>, FoundInstanceRefs(src)),
         string_constants |->
             PushCapped(<<>>,
                        SelectSeq(FoundStrings(src),
                                  LAMBDA x : /\ x \notin Noise
                                             /\ \A k \in DOMAIN services : services[k] # x),
                        MaxStringConstants),
         top_level_vars |->
             PushCapped(<<>>,
                        SelectSeq(FoundVars(src),
                                  LAMBDA x : Utf8Len(x) > 1 /\ x \notin FillerNames),
                        MaxTopLevelVars),
         line_count |-> LineCount(src)]

\* a script record of a scripts chunk
JScript(cls, pth, src) ==
    [t |-> "obj", class_name |-> cls, name |-> sEmpty, path |-> pth,
     children |-> <<>>, items |-> <<>>, source |-> src, outline |-> <<>>]

\* ScriptEntry with an outline for every record, with source or not
ScriptEntryOfOutlined(script) ==
    [t |-> "obj", class_name |-> script.class_name, name |-> sEmpty,
     path |-> script.path, children |-> <<>>, items |-> <<>>, source |-> sEmpty,
     outline |-> <<generate_outline(script.source)>>]

\* the ScriptEntry of one script record, as a Value: the outline is present
\* only when the source is not empty
ScriptEntryOf(script) ==
    [t |-> "obj", class_name |-> script.class_name, name |-> sEmpty,
     path |-> script.path, children |-> <<>>, items |-> <<>>, source |-> sEmpty,
     outline |-> IF script.source # sEmpty
                    THEN <<generate_outline(script.source)>> ELSE <<>>]

\* the ScriptFull {path, source} of one script record, as a Value
ScriptFullOf(script) ==
    [t |-> "obj", class_name |-> sEmpty, name |-> sEmpty, path |-> script.path,
     children |-> <<>>, items |-> <<>>, source |-> script.source, outline |-> <<>>]

\* full_sources with a record pushed for every script, with source or not
RECURSIVE ScriptFullSourcesAll(_)
ScriptFullSourcesAll(scripts) ==
    IF scripts = <<>> THEN <<>>
    ELSE <<ScriptFullOf(Head(scripts))>> \o ScriptFullSourcesAll(Tail(scripts))

\* the two vectors process_script_chunk builds from the chunk's array
RECURSIVE ScriptOutlines(_)
ScriptOutlines(scripts) ==
    IF scripts = <<>> THEN <<>>
    ELSE <<ScriptEntryOf(Head(scripts))>> \o ScriptOutlines(Tail(scripts))

RECURSIVE ScriptFullSources(_)
ScriptFullSources(scripts) ==
    IF scripts = <<>> THEN <<>>
    ELSE (IF Head(scripts).source # sEmpty
             THEN <<ScriptFullOf(Head(scripts))>> ELSE <<>>)
         \o ScriptFullSources(Tail(scripts))

\* ScanCompleteRequest bodies: two sets of caller-supplied metadata per place
CompleteRequest(place_id, v) ==
    [place_id |-> place_id, game_id |-> v, place_version |-> v,
     place_name |-> IF v = 1 THEN sA ELSE sB, creator_id |-> v,
     creator_type |-> "User", job_id |-> "job", scopes |-> <<"tree">>,
     scan_duration_secs |-> v, instance_count |-> v, script_count |-> 0,
     remote_count |-> 0, executor_supports_decompile |-> (v = 1)]

\* a GameManifest whose counts are not the caller's but zero
GameManifestNoCounts(req, tree_hash, scanned_at) ==
    [place_id |-> req.place_id, game_id |-> req.game_id,
     place_version |-> req.place_version, place_name |-> req.place_name,
     creator_id |-> req.creator_id, creator_type |-> req.creator_type,
     job_id |-> req.job_id, tree_hash |-> tree_hash, scanned_at |-> scanned_at,
     scan_duration_secs |-> req.scan_duration_secs, scopes |-> req.scopes,
     instance_count |-> 0, script_count |-> 0, remote_count |-> 0,
     executor_supports_decompile |-> req.executor_supports_decompile]

\* the GameManifest built by write_manifest
GameManifest(req, tree_hash, scanned_at) ==
    [place_id |-> req.place_id, game_id |-> req.game_id,
     place_version |-> req.place_version, place_name |-> req.place_name,
     creator_id |-> req.creator_id, creator_type |-> req.creator_type,
     job_id |-> req.job_id, tree_hash |-> tree_hash, scanned_at |-> scanned_at,
     scan_duration_secs |-> req.scan_duration_secs, scopes |-> req.scopes,
     instance_count |-> req.instance_count, script_count |-> req.script_count,
     remote_count |-> req.remote_count,
     executor_supports_decompile |-> req.executor_supports_decompile]

\* ScanStatus inserted for an untracked place by post_scan_data
NewScanStatus(place_id, at) ==
    [place_id |-> place_id, status |-> "scanning",
     progress |-> <<"receiving", "data">>, started_at |-> at]

(***************************************************************************)
(* The query helpers of scanner.rs.                                        *)
(***************************************************************************)
\* char::to_lowercase on an ASCII letter
ToLower(c) == IF c \in 65..90 THEN c + 32 ELSE c

\* str::to_lowercase
to_lowercase(s) == [i \in 1..Len(s) |-> ToLower(s[i])]

\* str::starts_with
starts_with(s, prefix) ==
    /\ Len(prefix) <= Len(s)
    /\ SubSeq(s, 1, Len(prefix)) = prefix

\* str::contains
contains(s, sub) ==
    \E i \in 0..(Len(s) - Len(sub)) : SubSeq(s, i + 1, i + Len(sub)) = sub

\* str::eq_ignore_ascii_case
eq_ignore_ascii_case(a, b) == to_lowercase(a) = to_lowercase(b)

\* v.get(key).and_then(|v| v.as_str()).unwrap_or("")
StrField(v, key) == IF v.t = "obj" THEN v[key] ELSE sEmpty

\* GameQuery: every member an Option, <<>> for None
GameQuery(path, search, class, include_source, max_depth) ==
    [path |-> path, search |-> search, class |-> class,
     include_source |-> include_source, max_depth |-> max_depth]

\* the decimal digits of n
RECURSIVE Digits(_)
Digits(n) == IF n < 10 THEN <<48 + n>> ELSE Digits(n \div 10) \o <<48 + (n % 10)>>

\* serde_json::to_string(outline) of an outline whose lists are empty
OutlineJson(outline) ==
    <<123, 34, 102, 117, 110, 99, 116, 105, 111, 110, 115, 34, 58, 91, 93, 44,
       34, 114, 101, 113, 117, 105, 114, 101, 115, 34, 58, 91, 93, 44, 34, 115,
       101, 114, 118, 105, 99, 101, 115, 34, 58, 91, 93, 44, 34, 114, 101, 109,
       111, 116, 101, 95, 97, 99, 99, 101, 115, 115, 101, 115, 34, 58, 91, 93,
       44, 34, 105, 110, 115, 116, 97, 110, 99, 101, 95, 114, 101, 102, 115, 34,
       58, 91, 93, 44, 34, 115, 116, 114, 105, 110, 103, 95, 99, 111, 110, 115,
       116, 97, 110, 116, 115, 34, 58, 91, 93, 44, 34, 116, 111, 112, 95, 108,
       101, 118, 101, 108, 95, 118, 97, 114, 115, 34, 58, 91, 93, 44, 34, 108,
       105, 110, 101, 95, 99, 111, 117, 110, 116, 34, 58>>
    \o Digits(outline.line_count) \o <<125>>

\* filter_tree's closure with a node kept as soon as one supplied filter
\* matches
TreeKeepAny(node, q) ==
    LET path == to_lowercase(StrField(node, "path"))
        class == StrField(node, "class_name")
        name == to_lowercase(StrField(node, "name"))
    IN  \/ q.path = <<>> /\ q.class = <<>> /\ q.search = <<>>
        \/ q.path # <<>> /\ starts_with(path, to_lowercase(q.path[1]))
        \/ q.class # <<>> /\ eq_ignore_ascii_case(class, q.class[1])
        \/ q.search # <<>> /\ (contains(name, to_lowercase(q.search[1]))
                               \/ contains(path, to_lowercase(q.search[1])))

\* the closure of filter_tree's filter: the node is dropped at the first
\* supplied filter it fails
TreeKeep(node, q) ==
    LET path == StrField(node, "path")
        class == StrField(node, "class_name")
        name == StrField(node, "name")
    IN  IF q.path # <<>>
           /\ ~starts_with(to_lowercase(path), to_lowercase(q.path[1])) THEN FALSE
        ELSE IF q.class # <<>> /\ ~eq_ignore_ascii_case(class, q.class[1]) THEN FALSE
        ELSE IF q.search # <<>>
                /\ ~contains(to_lowercase(name), to_lowercase(q.search[1]))
                /\ ~contains(to_lowercase(path), to_lowercase(q.search[1])) THEN FALSE
        ELSE TRUE

\* trim_depth that cuts one level later
RECURSIVE trim_depth_late(_, _, _)
trim_depth_late(node, current, max) ==
    IF current > max THEN
        IF node.t = "obj" THEN [node EXCEPT !.children = <<>>] ELSE node
    ELSE IF node.t = "obj" /\ node.children # <<>> /\ node.children[1].t = "arr" THEN
        [node EXCEPT !.children =
            <<[node.children[1] EXCEPT !.items =
                  [i \in 1..Len(node.children[1].items) |->
                      trim_depth_late(node.children[1].items[i], current + 1, max)]]>>]
    ELSE node

\* trim_depth: at the limit an object loses its "children" member, above it
\* the elements of a "children" array are trimmed one level deeper
RECURSIVE trim_depth(_, _, _)
trim_depth(node, current, max) ==
    IF current >= max THEN
        IF node.t = "obj" THEN [node EXCEPT !.children = <<>>] ELSE node
    ELSE IF node.t = "obj" /\ node.children # <<>> /\ node.children[1].t = "arr" THEN
        [node EXCEPT !.children =
            <<[node.children[1] EXCEPT !.items =
                  [i \in 1..Len(node.children[1].items) |->
                      trim_depth(node.children[1].items[i], current + 1, max)]]>>]
    ELSE node

\* a node with the filter applied to its children and theirs
RECURSIVE KeepBelow(_, _)
KeepBelow(node, q) ==
    IF node.t = "obj" /\ node.children # <<>> /\ node.children[1].t = "arr" THEN
        LET kids == SelectSeq(node.children[1].items, LAMBDA c : TreeKeep(c, q))
        IN  [node EXCEPT !.children =
                <<JArr([i \in 1..Len(kids) |-> KeepBelow(kids[i], q)])>>]
    ELSE node

\* a filter_tree that filters at every level of the tree
filter_tree_every_level(tree, q) ==
    IF tree.t # "arr" THEN tree
    ELSE LET kept == SelectSeq(tree.items, LAMBDA node : TreeKeep(node, q))
         IN  JArr([i \in 1..Len(kept) |-> KeepBelow(kept[i], q)])

\* filter_tree: a stored value that is no array is returned as it is
filter_tree(tree, q) ==
    IF tree.t # "arr" THEN tree
    ELSE LET kept == SelectSeq(tree.items, LAMBDA node : TreeKeep(node, q))
         IN  JArr([i \in 1..Len(kept) |->
                      IF q.max_depth # <<>>
                          THEN trim_depth(kept[i], 0, q.max_depth[1])
                          ELSE kept[i]])

\* the closure of filter_scripts' filter; the search looks at the path and
\* at the serialized outline, an entry without outline fails it unless its
\* path matches
ScriptKeep(entry, q) ==
    LET path == StrField(entry, "path")
        class == StrField(entry, "class_name")
    IN  IF q.path # <<>>
           /\ ~starts_with(to_lowercase(path), to_lowercase(q.path[1])) THEN FALSE
        ELSE IF q.class # <<>> /\ ~eq_ignore_ascii_case(class, q.class[1]) THEN FALSE
        ELSE IF q.search # <<>>
                /\ ~contains(to_lowercase(path), to_lowercase(q.search[1])) THEN
                 IF entry.t = "obj" /\ entry.outline # <<>>
                     THEN contains(to_lowercase(OutlineJson(entry.outline[1])),
                                   to_lowercase(q.search[1]))
                     ELSE FALSE
        ELSE TRUE

\* filter_scripts
filter_scripts(data, q) ==
    IF data.t # "arr" THEN data ELSE JArr(SelectSeq(data.items, LAMBDA entry : ScriptKeep(entry, q)))

\* the closure of filter_entries' filter; the prefix may match the path or
\* the name
EntryKeep(entry, q) ==
    LET path == StrField(entry, "path")
        class == StrField(entry, "class_name")
        name == StrField(entry, "name")
    IN  IF q.path # <<>>
           /\ ~starts_with(to_lowercase(path), to_lowercase(q.path[1]))
           /\ ~starts_with(to_lowercase(name), to_lowercase(q.path[1])) THEN FALSE
        ELSE IF q.class # <<>> /\ ~eq_ignore_ascii_case(class, q.class[1]) THEN FALSE
        ELSE IF q.search # <<>>
                /\ ~contains(to_lowercase(path), to_lowercase(q.search[1]))
                /\ ~contains(to_lowercase(name), to_lowercase(q.search[1])) THEN FALSE
        ELSE TRUE

\* filter_entries
filter_entries(data, q) ==
    IF data.t # "arr" THEN data ELSE JArr(SelectSeq(data.items, LAMBDA entry : EntryKeep(entry, q)))

\* scope names with one more name taken as valid
ScopeNamesAndMore ==
    {"tree", "scripts", "remotes", "properties", "services", "bogus"}

\* the scope names of get_game_scope and the file each one reads
ScopeNames == {"tree", "scripts", "remotes", "properties", "services"}

ScopeFile(scope, q) ==
    IF scope = "scripts" THEN
        (IF q.include_source = <<TRUE>> THEN "scripts_full.json" ELSE "scripts.json")
    ELSE IF scope = "tree" THEN "tree.json"
    ELSE IF scope = "remotes" THEN "remotes.json"
    ELSE IF scope = "properties" THEN "properties.json"
    ELSE "services.json"

\* get_game_scope after load_file returned data: the filter of the scope
ScopeFiltered(scope, data, q) ==
    IF scope = "scripts" /\ q.include_source = <<TRUE>> THEN
        (IF q.path # <<>> \/ q.search # <<>> \/ q.class # <<>>
             THEN filter_scripts(data, q) ELSE data)
    ELSE IF scope = "tree" THEN filter_tree(data, q)
    ELSE IF scope = "scripts" THEN filter_scripts(data, q)
    ELSE filter_entries(data, q)

VARIABLES
    hTree,        \* the tree T given to the hasher
    hPerm,        \* a permutation of T's top-level order
    hHash,        \* <<compute_tree_hash(T)>> once computed
    hPermHash,    \* <<compute_tree_hash(P(T))>> once computed
    files,        \* files[p][f]: <<>> when places/p/f is absent, else <<text>>
    manifests,    \* manifests[p]: places/p/manifest.json, <<>> or <<text>>
    dirs,         \* the places whose directory places/p exists
    active_scans, \* AppState.active_scans: <<>> or <<ScanStatus>> per place
    now,          \* Utc::now()
    wk,           \* wk[w]: the handler running on worker w and its locals
    resp,         \* resp[w]: the response of w's request, until its next one
    g_hist,       \* history: payloads appended to each file since it was absent
    g_cur,        \* history: tree payloads stored since the last manifest
    g_scans,      \* history: the last two finalized scans, chunks and hash
    g_chunk,      \* history: a chunk was accepted since the last finalize/cancel
    g_lastfin,    \* history: manifest of the last finalize since the last delete
    g_svc,        \* history: the last two services payloads written since delete
    nreq,         \* history: requests begun
    logs,         \* AppState.logs: the entries in memory, oldest first
    generic_clients, \* AppState.generic_clients: <<>> or <<GenericClient>> per user
    next_id,      \* the ids Uuid::new_v4() gave so far: the next one is fresh
    max_entries,  \* args.max_entries
    reaper_due,   \* the time the reaper's sleep ends
    reaper_alive, \* the reaper task has not panicked
    oSource,      \* the lines of the script given to the outline extractor
    oOutline,     \* <<generate_outline(source)>> once computed
    args_mode,    \* args.mode: "generic" or "xeno"
    tasks,        \* tasks[t]: the lock operations a task has left, and its guards
    spy_clients,  \* AppState.spy_clients: a set of pids
    spy_subscriptions, \* AppState.spy_subscriptions: the paths subscribed per key
    pending       \* the scripts written to <exchange_dir>/pending, oldest first

\* the inputs and results of the pure functions called on their own
ovars == <<oSource, oOutline>>

\* the server's mode, the tasks' guards, the spy state and the exchange directory
xvars == <<args_mode, tasks, spy_clients, spy_subscriptions, pending>>

hvars == <<hTree, hPerm, hHash, hPermHash, oSource, oOutline,
           args_mode, tasks, spy_clients, spy_subscriptions, pending>>

store == <<files, manifests, dirs>>

ghosts == <<g_hist, g_cur, g_scans, g_chunk, g_lastfin, g_svc>>

\* the state of the logs and clients routes
lvars == <<logs, generic_clients, next_id, max_entries, reaper_due, reaper_alive>>

svars == <<files, manifests, dirs, active_scans, now, wk, resp,
           g_hist, g_cur, g_scans, g_chunk, g_lastfin, g_svc, nreq,
           logs, generic_clients, next_id, max_entries,
          reaper_due, reaper_alive>>

vars == <<hTree, hPerm, hHash, hPermHash, files, manifests, dirs, active_scans,
          now, wk, resp, g_hist, g_cur, g_scans, g_chunk, g_lastfin, g_svc, nreq,
          logs, generic_clients, next_id, max_entries,
          reaper_due, reaper_alive, oSource, oOutline,
          args_mode, tasks, spy_clients, spy_subscriptions, pending>>

\* a worker with no request
IdleWorker ==
    [pc |-> "idle", place_id |-> 0, chunk_type |-> "", data |-> <<>>,
     todo |-> <<>>, existing |-> <<>>, req |-> <<>>, manifest |-> <<>>,
     result_ok |-> TRUE]

\* sent is the payload of the request the response answers, data the "data"
\* or "games" member of the response body, chunk_type the member of that
\* name, overlap the workers whose handler for the place was running when a
\* cancel ran, id, cleared and valid the members of those names
NoResponse ==
    [op |-> "none", place_id |-> 0, status |-> 0, manifest |-> <<>>,
     removed |-> FALSE, sent |-> <<>>, data |-> <<>>, overlap |-> {},
     chunk_type |-> "", id |-> 0, cleared |-> 0, valid |-> FALSE]

Response(op, place_id, status) ==
    [op |-> op, place_id |-> place_id, status |-> status, manifest |-> <<>>,
     removed |-> FALSE, sent |-> <<>>, data |-> <<>>, overlap |-> {},
     chunk_type |-> "", id |-> 0, cleared |-> 0, valid |-> FALSE]

\* the state after main() has built AppState, on an empty storage directory,
\* whatever --max-entries was given
AppInit ==
    /\ files = [p \in Targets |-> [f \in ScopeFiles |-> <<>>]]
    /\ manifests = [p \in Targets |-> <<>>]
    /\ dirs = {}
    /\ active_scans = [p \in Targets |-> <<>>]
    /\ now = 0
    /\ wk = [w \in AllWorkers |-> IdleWorker]
    /\ resp = [w \in AllWorkers |-> NoResponse]
    /\ g_hist = [p \in Targets |-> [f \in AppendFiles |-> <<>>]]
    /\ g_cur = [p \in Targets |-> <<>>]
    /\ g_scans = [p \in Targets |-> <<>>]
    /\ g_chunk = [p \in Targets |-> FALSE]
    /\ g_lastfin = [p \in Targets |-> <<>>]
    /\ g_svc = [p \in Targets |-> <<>>]
    /\ nreq = 0
    /\ logs = <<>>
    /\ generic_clients = [u \in Users |-> <<>>]
    /\ next_id = 1
    /\ reaper_due = ReaperPeriod * TicksPerSecond
    /\ reaper_alive = TRUE

\* the server started with --max-entries MaxEntries
SysInit ==
    /\ AppInit
    /\ max_entries = MaxEntries

\* the hasher's inputs are not used by the server
\* the extractor's input is not used by the server
\* a server in generic mode with no spy state, its locks left out
SpyIdle ==
    /\ args_mode = "generic"
    /\ tasks = <<>>
    /\ spy_clients = {}
    /\ spy_subscriptions = <<>>
    /\ pending = <<>>

OutlineIdle ==
    /\ oSource = <<>>
    /\ oOutline = <<>>
    /\ SpyIdle

HashIdle ==
    /\ hTree = JArr(<<>>)
    /\ hPerm = JArr(<<>>)
    /\ hHash = <<>>
    /\ hPermHash = <<>>
    /\ OutlineIdle

HashInit ==
    /\ SysInit
    /\ hTree \in {JArr(s) : s \in SeqsUpTo(HashNodes, MaxTop)}
    /\ hPerm = hTree
    /\ hHash = <<>>
    /\ hPermHash = <<>>
    /\ OutlineIdle

\* compute_tree_hash(&tree)
HashTree ==
    /\ hHash = <<>>
    /\ hHash' = <<compute_tree_hash(hTree)>>
    /\ UNCHANGED <<hTree, hPerm, hPermHash, ovars, xvars, svars>>

\* exchange two neighbours of the top-level order and hash the result
HashPermuted(i) ==
    /\ i + 1 <= Len(hPerm.items)
    /\ hPerm' = JArr(SwapAt(hPerm.items, i))
    /\ hPermHash' = <<compute_tree_hash(hPerm')>>
    /\ UNCHANGED <<hTree, hHash, ovars, xvars, svars>>

HashNext ==
    \/ HashTree
    \/ \E i \in 1..MaxTop : HashPermuted(i)

SpecHash == HashInit /\ [][HashNext]_vars

\* C2: for every tree T and every permutation P of its top-level order,
\* compute_tree_hash(T) = compute_tree_hash(P(T))
C2_OrderIndependent ==
    (hHash # <<>> /\ hPermHash # <<>>) => hHash = hPermHash

\* a permuted tree that differs from T, both hashed
C2_Witness ==
    /\ hHash # <<>>
    /\ hPermHash # <<>>
    /\ hPerm # hTree
    /\ Len(collect_hash_entries(hTree)) >= 2
    /\ hHash = hPermHash
(***************************************************************************)
(* The handlers of routes/scanner.rs. A handler that touches the shared    *)
(* state more than once is one action per touch; wk[w].pc is where worker  *)
(* w stands. io is the outcome of a step's create_dir_all, fs::write or    *)
(* remove_dir_all: a step that fails leaves what it would have written as  *)
(* it was.                                                                 *)
(***************************************************************************)
IoOutcomes == {"ok", "fail"}

\* a history after its newest entry was added, the last two kept
LastTwo(h) ==
    IF Len(h) > 2 THEN SubSeq(h, Len(h) - 1, Len(h)) ELSE h

\* w's request ends with response r
Finish(w, r) ==
    /\ wk' = [wk EXCEPT ![w] = IdleWorker]
    /\ resp' = [resp EXCEPT ![w] = r]

\* w's request goes on as next; the response of its last request is gone
Continue(w, next) ==
    /\ wk' = [wk EXCEPT ![w] = next]
    /\ resp' = [resp EXCEPT ![w] = NoResponse]

\* scans.insert(place_id, ..) in place of entry(..).or_insert_with(..): every
\* chunk opens the session anew
TouchScanFresh(scans, place_id, chunk_type, at) ==
    [scans EXCEPT ![place_id] =
        <<[NewScanStatus(place_id, at) EXCEPT !.progress = <<"receiving", chunk_type>>]>>]

\* a session update that never opens a session
TouchScanNoInsert(scans, place_id, chunk_type, at) ==
    IF scans[place_id] = <<>> THEN scans
    ELSE [scans EXCEPT ![place_id] =
              <<[scans[place_id][1] EXCEPT !.progress = <<"receiving", chunk_type>>]>>]

\* a session upsert made only once the chunk type is known to be a scope
TouchScanKnownType(scans, place_id, chunk_type, at) ==
    IF chunk_type \notin {"tree", "remotes", "properties", "scripts", "services"}
        THEN scans
    ELSE LET s == IF scans[place_id] = <<>> THEN NewScanStatus(place_id, at)
                  ELSE scans[place_id][1]
         IN  [scans EXCEPT ![place_id] =
                 <<[s EXCEPT !.progress = <<"receiving", chunk_type>>]>>]

\* scans.entry(place_id).or_insert_with(..), then progress = "receiving <type>"
TouchScan(scans, place_id, chunk_type, at) ==
    LET s == IF scans[place_id] = <<>> THEN NewScanStatus(place_id, at)
             ELSE scans[place_id][1]
    IN  [scans EXCEPT ![place_id] = <<[s EXCEPT !.progress = <<"receiving", chunk_type>>]>>]

\* the appends a chunk of an append-mode type asks for, in order
AppendJobs(chunk_type, data) ==
    IF chunk_type = "tree" THEN <<[file |-> "tree.json", items |-> data]>>
    ELSE IF chunk_type = "remotes" THEN <<[file |-> "remotes.json", items |-> data]>>
    ELSE IF chunk_type = "properties" THEN <<[file |-> "properties.json", items |-> data]>>
    ELSE <<[file |-> "scripts.json", items |-> JArr(ScriptOutlines(data.items))],
           [file |-> "scripts_full.json", items |-> JArr(ScriptFullSources(data.items))]>>

\* post_scan_data up to the first file operation: check_secret, the session
\* upsert under active_scans.write(), and the match on chunk_type
ScanData_Begin(w, place_id, chunk_type, data, provided) ==
    /\ wk[w].pc = "idle"
    /\ IF ~check_secret(provided) THEN
           /\ resp' = [resp EXCEPT ![w] = Response("scan_data", place_id, 401)]
           /\ UNCHANGED <<wk, active_scans, g_chunk>>
       ELSE
           /\ active_scans' = TouchScan(active_scans, place_id, chunk_type, now)
           /\ g_chunk' = [g_chunk EXCEPT ![place_id] = TRUE]
           /\ IF chunk_type \in {"tree", "remotes", "properties"}
                 \/ (chunk_type = "scripts" /\ data.t = "arr") THEN
                  Continue(w, [IdleWorker EXCEPT !.pc = "append_open",
                                                 !.place_id = place_id,
                                                 !.chunk_type = chunk_type,
                                                 !.data = <<data>>,
                                                 !.todo = AppendJobs(chunk_type, data)])
              ELSE IF chunk_type = "scripts" THEN
                  \* data.as_array().ok_or("scripts data must be an array")?
                  Finish(w, Response("scan_data", place_id, 500))
              ELSE IF chunk_type = "services" THEN
                  Continue(w, [IdleWorker EXCEPT !.pc = "save_write",
                                                 !.place_id = place_id,
                                                 !.chunk_type = chunk_type,
                                                 !.data = <<data>>])
              ELSE
                  Finish(w, Response("scan_data", place_id, 400))
    /\ UNCHANGED <<files, manifests, dirs, now, g_hist, g_cur, g_scans,
                   g_lastfin, g_svc, hvars, lvars>>

\* append_to_array, first half: create_dir_all, then the existing array is
\* read into the handler's own vector; a file that cannot be read ends the
\* request with the error
Append_Open(w, io) ==
    /\ wk[w].pc = "append_open"
    /\ LET p == wk[w].place_id
           f == Head(wk[w].todo).file
       IN  IF io = "fail" THEN
               /\ Finish(w, Response("scan_data", p, 500))
               /\ UNCHANGED dirs
           ELSE IF files[p][f] # <<>> /\ ~read_to_string_ok(files[p][f][1]) THEN
               \* fs::read_to_string(&path).map_err(..)?
               /\ dirs' = dirs \cup {p}
               /\ Finish(w, Response("scan_data", p, 500))
           ELSE
               /\ dirs' = dirs \cup {p}
               /\ wk' = [wk EXCEPT ![w].pc = "append_write",
                                   ![w].existing =
                                       IF files[p][f] # <<>>
                                           THEN from_str_vec(files[p][f][1])
                                           ELSE <<>>]
               /\ UNCHANGED resp
    /\ UNCHANGED <<files, manifests, active_scans, now, ghosts, nreq, hvars, lvars>>

\* an append that reads the file again at the moment it writes
AppendMergedReread(existing, on_disk, items) ==
    ExtendWith(IF on_disk = <<>> THEN <<>> ELSE from_str_vec(on_disk[1]), items)

\* the vector append_to_array writes back: the one it read, extended; what
\* the file holds by then (on_disk) is not looked at
AppendMerged(existing, on_disk, items) == ExtendWith(existing, items)

\* append_to_array, second half: the vector is extended and the whole file
\* rewritten; the write fails when the directory is gone
Append_Write(w, io) ==
    /\ wk[w].pc = "append_write"
    /\ LET p == wk[w].place_id
           job == Head(wk[w].todo)
           merged == AppendMerged(wk[w].existing, files[p][job.file], job.items)
       IN  IF io = "fail" \/ p \notin dirs THEN
               /\ Finish(w, Response("scan_data", p, 500))
               /\ UNCHANGED <<files, g_hist, g_cur>>
           ELSE
               /\ files' = [files EXCEPT ![p][job.file] = <<to_string_pretty(JArr(merged))>>]
               /\ g_hist' = [g_hist EXCEPT ![p][job.file] = Append(@, job.items)]
               /\ g_cur' = IF job.file = "tree.json"
                              THEN [g_cur EXCEPT ![p] = Append(@, job.items)]
                              ELSE g_cur
               /\ IF Len(wk[w].todo) > 1 THEN
                      /\ wk' = [wk EXCEPT ![w].pc = "append_open",
                                          ![w].todo = Tail(@),
                                          ![w].existing = <<>>]
                      /\ UNCHANGED resp
                  ELSE Finish(w, [Response("scan_data", p, 200)
                                     EXCEPT !.sent = wk[w].data,
                                            !.chunk_type = wk[w].chunk_type])
    /\ UNCHANGED <<manifests, dirs, active_scans, now, g_scans, g_chunk,
                   g_lastfin, g_svc, nreq, hvars, lvars>>

\* save_chunk with the file's old content kept in front of the payload
SaveTextAppending(old, data) ==
    to_string_pretty(JArr(ExtendWith(IF old = <<>> THEN <<>> ELSE from_str_vec(old[1]), data)))

\* the text save_chunk writes over a file holding old: the payload alone
SaveText(old, data) == to_string_pretty(data)

\* save_chunk for a services chunk: create_dir_all, then the file is replaced
Save_Write(w, io_dir, io_write) ==
    /\ wk[w].pc = "save_write"
    /\ LET p == wk[w].place_id
           data == wk[w].data[1]
       IN  IF io_dir = "fail" THEN
               /\ Finish(w, Response("scan_data", p, 500))
               /\ UNCHANGED <<files, dirs, g_svc>>
           ELSE IF io_write = "fail" THEN
               /\ dirs' = dirs \cup {p}
               /\ Finish(w, Response("scan_data", p, 500))
               /\ UNCHANGED <<files, g_svc>>
           ELSE
               /\ dirs' = dirs \cup {p}
               /\ files' = [files EXCEPT ![p]["services.json"] =
                                <<SaveText(files[p]["services.json"], data)>>]
               /\ g_svc' = [g_svc EXCEPT ![p] = LastTwo(Append(@, data))]
               /\ Finish(w, [Response("scan_data", p, 200)
                                 EXCEPT !.sent = wk[w].data,
                                        !.chunk_type = wk[w].chunk_type])
    /\ UNCHANGED <<manifests, active_scans, now, g_hist, g_cur, g_scans,
                   g_chunk, g_lastfin, nreq, hvars, lvars>>

\* post_scan_complete up to write_manifest: check_secret
Complete_Begin(w, req, provided) ==
    /\ wk[w].pc = "idle"
    /\ IF ~check_secret(provided) THEN
           /\ resp' = [resp EXCEPT ![w] = Response("scan_complete", req.place_id, 401)]
           /\ UNCHANGED wk
       ELSE
           Continue(w, [IdleWorker EXCEPT !.pc = "manifest_load",
                                          !.place_id = req.place_id,
                                          !.req = <<req>>])
    /\ UNCHANGED <<files, manifests, dirs, active_scans, now, ghosts, hvars, lvars>>

\* a tree of one node taken in place of a tree file that fails to load
TreeOrPlaceholder(loaded) ==
    IF loaded = <<>> THEN JArr(<<nodeA>>) ELSE loaded[1]

\* load_file(storage_dir, req.place_id, "tree.json").unwrap_or(json!([]))
TreeOrEmpty(loaded) ==
    IF loaded = <<>> THEN JArr(<<>>) ELSE loaded[1]

\* write_manifest, first half: the tree file is loaded (an empty tree when
\* load_file fails), hashed, and the manifest stamped with the current time
Manifest_Load(w) ==
    /\ wk[w].pc = "manifest_load"
    /\ LET p == wk[w].place_id
           loaded == load_file(files[p]["tree.json"])
           tree_data == TreeOrEmpty(loaded)
           tree_hash == compute_tree_hash(tree_data)
       IN  wk' = [wk EXCEPT ![w].pc = "manifest_write",
                           ![w].manifest = <<GameManifest(wk[w].req[1], tree_hash, now)>>]
    /\ UNCHANGED <<files, manifests, dirs, active_scans, now, resp, ghosts,
                   nreq, hvars, lvars>>

\* fs::write of the manifest that leaves a manifest already there in place
ManifestTextKeepFirst(old, m) ==
    IF old # <<>> THEN old[1] ELSE to_string_pretty(m)

\* the text fs::write puts in manifest.json, which held old: the new manifest
ManifestText(old, m) == to_string_pretty(m)

\* write_manifest, second half: create_dir_all, then manifest.json is replaced
Manifest_Write(w, io_dir, io_write) ==
    /\ wk[w].pc = "manifest_write"
    /\ LET p == wk[w].place_id
           m == wk[w].manifest[1]
       IN  IF io_dir = "fail" THEN
               /\ wk' = [wk EXCEPT ![w].pc = "complete_done", ![w].result_ok = FALSE]
               /\ UNCHANGED <<manifests, dirs, g_cur, g_scans, g_lastfin>>
           ELSE IF io_write = "fail" THEN
               /\ dirs' = dirs \cup {p}
               /\ wk' = [wk EXCEPT ![w].pc = "complete_done", ![w].result_ok = FALSE]
               /\ UNCHANGED <<manifests, g_cur, g_scans, g_lastfin>>
           ELSE
               /\ dirs' = dirs \cup {p}
               /\ manifests' = [manifests EXCEPT ![p] = <<ManifestText(manifests[p], m)>>]
               /\ wk' = [wk EXCEPT ![w].pc = "complete_done", ![w].result_ok = TRUE]
               /\ g_lastfin' = [g_lastfin EXCEPT ![p] = <<m>>]
               /\ g_scans' = [g_scans EXCEPT ![p] =
                                 LastTwo(Append(@, [chunks |-> g_cur[p],
                                                    tree_hash |-> m.tree_hash]))]
               /\ g_cur' = [g_cur EXCEPT ![p] = <<>>]
    /\ UNCHANGED <<files, active_scans, now, resp, g_hist, g_chunk, g_svc,
                   nreq, hvars, lvars>>

\* a finalize that ends with scans.clear(): every session is dropped
ScansAfterCompleteClearAll(scans, place_id, ok) == [p \in Targets |-> <<>>]

\* the session map after post_scan_complete, were the Err arm to keep the session
ScansAfterCompleteOkOnly(scans, place_id, ok) ==
    IF ok THEN [scans EXCEPT ![place_id] = <<>>] ELSE scans

\* the session map after post_scan_complete: both arms of the match run
\* state.active_scans.write().remove(&place_id)
ScansAfterComplete(scans, place_id, ok) == [scans EXCEPT ![place_id] = <<>>]

\* post_scan_complete after write_manifest: the session is removed and the
\* manifest or the error returned
Complete_Done(w) ==
    /\ wk[w].pc = "complete_done"
    /\ LET p == wk[w].place_id
       IN  /\ active_scans' = ScansAfterComplete(active_scans, p, wk[w].result_ok)
           /\ g_chunk' = [g_chunk EXCEPT ![p] = FALSE]
           /\ Finish(w, [Response("scan_complete", p,
                                   IF wk[w].result_ok THEN 200 ELSE 500)
                             EXCEPT !.manifest = IF wk[w].result_ok
                                                    THEN wk[w].manifest ELSE <<>>,
                                    !.removed = active_scans[p] # <<>>])
    /\ UNCHANGED <<files, manifests, dirs, now, g_hist, g_cur, g_scans,
                   g_lastfin, g_svc, nreq, hvars, lvars>>

\* a cancel that stops the handlers running for the place
WorkersAfterCancelStopped(workers, place_id) ==
    [v \in AllWorkers |->
        IF workers[v].pc # "idle" /\ workers[v].place_id = place_id
            THEN IdleWorker ELSE workers[v]]

\* the running handlers after post_scan_cancel: it removes the map entry and
\* signals nothing to a handler
WorkersAfterCancel(workers, place_id) == workers

\* a cancel that reports a session whether or not there was one
CancelFoundAlways(scans, place_id) == TRUE

\* state.active_scans.write().remove(&place_id).is_some()
CancelFound(scans, place_id) == scans[place_id] # <<>>

\* post_scan_cancel; place_id 0 is a body without a place_id
ScanCancel(w, place_id, provided) ==
    /\ wk[w].pc = "idle"
    /\ IF ~check_secret(provided) THEN
           /\ resp' = [resp EXCEPT ![w] = Response("scan_cancel", place_id, 401)]
           /\ UNCHANGED <<active_scans, g_chunk>>
       ELSE IF place_id \notin Targets THEN
           /\ resp' = [resp EXCEPT ![w] = Response("scan_cancel", place_id, 400)]
           /\ UNCHANGED <<active_scans, g_chunk>>
       ELSE
           LET removed == CancelFound(active_scans, place_id)
           IN  /\ active_scans' = [active_scans EXCEPT ![place_id] = <<>>]
               /\ g_chunk' = [g_chunk EXCEPT ![place_id] = FALSE]
               /\ resp' = [resp EXCEPT ![w] =
                              [Response("scan_cancel", place_id,
                                        IF removed THEN 200 ELSE 404)
                                  EXCEPT !.removed = removed,
                                         !.overlap =
                                             {v \in AllWorkers :
                                                 /\ wk[v].pc # "idle"
                                                 /\ wk[v].place_id = place_id}]]
    /\ wk' = IF check_secret(provided) /\ place_id \in Targets
                 THEN WorkersAfterCancel(wk, place_id) ELSE wk
    /\ UNCHANGED <<files, manifests, dirs, now, g_hist, g_cur, g_scans,
                   g_lastfin, g_svc, hvars, lvars>>

\* DELETE /games/{placeId}, the guard before scanner::delete_game: a place
\* without manifest.json is answered 404 and nothing is removed
DeleteGuard(mf, ds, place_id) == game_exists(mf, place_id)

\* DELETE /games/{placeId} up to scanner::delete_game
Delete_Begin(w, place_id, provided) ==
    /\ wk[w].pc = "idle"
    /\ IF ~check_secret(provided) THEN
           /\ resp' = [resp EXCEPT ![w] = Response("delete_game", place_id, 401)]
           /\ UNCHANGED wk
       ELSE IF ~DeleteGuard(manifests, dirs, place_id) THEN
           /\ resp' = [resp EXCEPT ![w] = Response("delete_game", place_id, 404)]
           /\ UNCHANGED wk
       ELSE
           Continue(w, [IdleWorker EXCEPT !.pc = "delete_remove",
                                          !.place_id = place_id])
    /\ UNCHANGED <<files, manifests, dirs, active_scans, now, ghosts, hvars, lvars>>

\* delete_game without the dir.exists() test: remove_dir_all fails on a
\* directory that is not there
delete_game_fails_unless_dir(ds, place_id, io) == place_id \notin ds \/ io = "fail"

\* scanner::delete_game returns Err: the directory exists and remove_dir_all
\* fails
delete_game_fails(ds, place_id, io) == place_id \in ds /\ io = "fail"

\* scanner::delete_game: remove_dir_all when the directory exists, else Ok
Delete_Remove(w, io) ==
    /\ wk[w].pc = "delete_remove"
    /\ LET p == wk[w].place_id
       IN  IF delete_game_fails(dirs, p, io) THEN
               /\ Finish(w, Response("delete_game", p, 500))
               /\ UNCHANGED <<files, manifests, dirs, g_hist, g_cur, g_lastfin, g_svc>>
           ELSE
               /\ files' = [files EXCEPT ![p] = [f \in ScopeFiles |-> <<>>]]
               /\ manifests' = [manifests EXCEPT ![p] = <<>>]
               /\ dirs' = dirs \ {p}
               /\ g_hist' = [g_hist EXCEPT ![p] = [f \in AppendFiles |-> <<>>]]
               /\ g_cur' = [g_cur EXCEPT ![p] = <<>>]
               /\ g_lastfin' = [g_lastfin EXCEPT ![p] = <<>>]
               /\ g_svc' = [g_svc EXCEPT ![p] = <<>>]
               /\ Finish(w, Response("delete_game", p, 200))
    /\ UNCHANGED <<active_scans, now, g_scans, g_chunk, nreq, hvars, lvars>>

\* scanner::delete_game(storage, place_id) called as the tests call it,
\* without the route's guard; Delete_Remove is the call
CallDeleteGame(w, place_id) ==
    /\ wk[w].pc = "idle"
    /\ Continue(w, [IdleWorker EXCEPT !.pc = "delete_remove", !.place_id = place_id])
    /\ UNCHANGED <<files, manifests, dirs, active_scans, now, ghosts, hvars, lvars>>

\* scanner::save_chunk(storage, place_id, "services.json", data) called as
\* the tests call it; Save_Write is the call
CallSaveChunk(w, place_id, data) ==
    /\ wk[w].pc = "idle"
    /\ Continue(w, [IdleWorker EXCEPT !.pc = "save_write", !.place_id = place_id,
                                      !.chunk_type = "services", !.data = <<data>>])
    /\ UNCHANGED <<files, manifests, dirs, active_scans, now, ghosts, hvars, lvars>>

\* scanner::load_file(storage, place_id, f) called as the tests call it: the
\* result is kept as the answer, 200 with the value for Ok, 500 for Err
CallLoadFile(w, place_id, f) ==
    /\ wk[w].pc = "idle"
    /\ LET loaded == load_file(files[place_id][f])
       IN  resp' = [resp EXCEPT ![w] =
                       [Response("load_file", place_id,
                                 IF loaded # <<>> THEN 200 ELSE 500)
                           EXCEPT !.data = loaded]]
    /\ UNCHANGED <<files, manifests, dirs, active_scans, now, wk, ghosts,
                   nreq, hvars, lvars>>

\* GET /games/{placeId}: the manifest file as it is loaded, or 404
GetGame(w, place_id) ==
    /\ wk[w].pc = "idle"
    /\ LET loaded == load_file(manifests[place_id])
       IN  resp' = [resp EXCEPT ![w] =
                       [Response("get_game", place_id,
                                 IF loaded # <<>> THEN 200 ELSE 404)
                           EXCEPT !.manifest = loaded]]
    /\ UNCHANGED <<files, manifests, dirs, active_scans, now, wk, ghosts,
                   nreq, hvars, lvars>>

\* NoQuery: a request without query parameters
NoQuery == GameQuery(<<>>, <<>>, <<>>, <<>>, <<>>)

\* GET /games/{placeId}/{scope}: 400 for an unknown scope, 404 when load_file
\* fails, else the loaded value after the scope's filter
GetGameScope(w, place_id, scope, q) ==
    /\ wk[w].pc = "idle"
    /\ LET sent == <<[scope |-> scope, q |-> q]>>
           loaded == load_file(files[place_id][ScopeFile(scope, q)])
       IN  resp' = [resp EXCEPT ![w] =
                       IF scope \notin ScopeNames THEN
                           [Response("get_scope", place_id, 400) EXCEPT !.sent = sent]
                       ELSE IF loaded = <<>> THEN
                           [Response("get_scope", place_id, 404) EXCEPT !.sent = sent]
                       ELSE
                           [Response("get_scope", place_id, 200)
                               EXCEPT !.sent = sent,
                                      !.data = <<ScopeFiltered(scope, loaded[1], q)>>]]
    /\ UNCHANGED <<files, manifests, dirs, active_scans, now, wk, ghosts,
                   nreq, hvars, lvars>>

\* manifests.sort_by(|a, b| b.scanned_at.cmp(&a.scanned_at)) taken the other
\* way round: oldest first
RECURSIVE SortGamesAscending(_)
SortGamesAscending(games) ==
    IF games = <<>> THEN <<>>
    ELSE LET rest == SortGamesAscending(Tail(games))
             before == SelectSeq(rest, LAMBDA m : m.scanned_at < Head(games).scanned_at)
             after == SelectSeq(rest, LAMBDA m : m.scanned_at >= Head(games).scanned_at)
         IN  before \o <<Head(games)>> \o after

\* manifests.sort_by(|a, b| b.scanned_at.cmp(&a.scanned_at)): a stable sort,
\* newest first
RECURSIVE SortGames(_)
SortGames(games) ==
    IF games = <<>> THEN <<>>
    ELSE LET rest == SortGames(Tail(games))
             before == SelectSeq(rest, LAMBDA m : m.scanned_at > Head(games).scanned_at)
             after == SelectSeq(rest, LAMBDA m : m.scanned_at <= Head(games).scanned_at)
         IN  before \o <<Head(games)>> \o after

\* the manifests list_games pushes while it walks the places directory in
\* the order read_dir gives: a directory without a manifest.json that reads
\* and parses is skipped
RECURSIVE CollectManifests(_, _, _)
CollectManifests(order, ds, mf) ==
    IF order = <<>> THEN <<>>
    ELSE (IF Head(order) \in ds /\ load_file(mf[Head(order)]) # <<>>
             THEN load_file(mf[Head(order)]) ELSE <<>>)
         \o CollectManifests(Tail(order), ds, mf)

\* the orders in which read_dir may give the places
DirOrders == {<<1, 2>>, <<2, 1>>}

\* GET /games: list_games; read_dir of the places directory may fail
ListGames(w, order, io) ==
    /\ wk[w].pc = "idle"
    /\ resp' = [resp EXCEPT ![w] =
                    IF dirs # {} /\ io = "fail" THEN Response("get_games", 0, 500)
                    ELSE [Response("get_games", 0, 200)
                             EXCEPT !.data = <<SortGames(CollectManifests(order, dirs, manifests))>>]]
    /\ UNCHANGED <<files, manifests, dirs, active_scans, now, wk, ghosts,
                   nreq, hvars, lvars>>

\* texts a stored file can hold that the server did not write: JSON cut
\* short, bytes that are not UTF-8, and a JSON document that is no array
BadJson == [utf8 |-> TRUE, valid |-> FALSE, doc |-> JNull]
NotUtf8 == [utf8 |-> FALSE, valid |-> FALSE, doc |-> JNull]
NotArray == to_string_pretty(nodeB)
DamagedTexts == {BadJson, NotUtf8, NotArray}

\* an existing scope file is damaged from outside the server
Damage(place_id, f, text) ==
    /\ files[place_id][f] # <<>>
    /\ files[place_id][f] # <<text>>
    /\ files' = [files EXCEPT ![place_id][f] = <<text>>]
    /\ UNCHANGED <<manifests, dirs, active_scans, now, wk, resp, ghosts, hvars, lvars>>

(***************************************************************************)
(* The logs and clients routes, generic mode. The lines store_entry prints *)
(* or appends to --log-file are output, not state.                         *)
(***************************************************************************)
\* LogEntry; id stands for the uuid, pid is None in generic mode
LogEntry(id, timestamp, level, message, source, username, tags) ==
    [id |-> id, timestamp |-> timestamp, level |-> level, message |-> message,
     source |-> source, username |-> username, tags |-> tags]

\* GenericClient inserted by an attached event
GenericClient(username, at) ==
    [username |-> username, last_heartbeat |-> at, connected_at |-> at,
     connected |-> TRUE]

\* store_entry's logs.remove(0) on an empty Vec: the thread panics
store_entry_panics(entries, max) == Len(entries) >= max /\ entries = <<>>

\* store_entry on a log it does not panic on: if logs.len() >= max_entries
\* { logs.remove(0); } logs.push(entry.clone())
store_entry(entries, max, entry) ==
    IF Len(entries) >= max THEN Append(Tail(entries), entry)
    ELSE Append(entries, entry)

\* a handler that panicked: the connection is closed without a response
Dropped(op) == Response(op, 0, 0)

\* a heartbeat that brings the client back
TouchHeartbeatReconnects(clients, username, at) ==
    IF clients[username] = <<>> THEN clients
    ELSE [clients EXCEPT ![username] =
              <<[@[1] EXCEPT !.last_heartbeat = at, !.connected = TRUE]>>]

\* client.last_heartbeat = Local::now() for a user that is in the map
TouchHeartbeat(clients, username, at) ==
    IF clients[username] = <<>> THEN clients
    ELSE [clients EXCEPT ![username] = <<[@[1] EXCEPT !.last_heartbeat = at]>>]

\* the entry an event of handle_generic_event stores
EventEntry(event, username, message, id, at) ==
    IF event = "attached" THEN
        LogEntry(id, at, "info", <<"Generic loader attached for", username>>,
                 "xeno-mcp", username,
                 <<"internal", "attached", "generic">>)
    ELSE IF event = "disconnected" THEN
        LogEntry(id, at, "info", <<"Generic client disconnected", username>>,
                 "xeno-mcp", username,
                 <<"internal", "disconnected", "generic">>)
    ELSE LogEntry(id, at, "output", message, "roblox", username, <<"auto">>)

\* the clients map after an event of handle_generic_event
ClientsAfterEvent(clients, event, username, at) ==
    IF event = "attached" THEN
        [clients EXCEPT ![username] = <<GenericClient(username, at)>>]
    ELSE IF event \in {"already_attached", "heartbeat", "log"} THEN
        TouchHeartbeat(clients, username, at)
    ELSE IF event = "disconnected" /\ clients[username] # <<>> THEN
        [clients EXCEPT ![username] = <<[@[1] EXCEPT !.connected = FALSE]>>]
    ELSE clients

\* POST /internal in generic mode: check_secret, the username, then
\* handle_generic_event; username and event are given trimmed, the event in
\* lower case, message "" is a body without message
PostInternal(w, event, username, message, provided) ==
    /\ wk[w].pc = "idle"
    /\ IF ~check_secret(provided) THEN
           /\ resp' = [resp EXCEPT ![w] = Response("internal", 0, 401)]
           /\ UNCHANGED <<logs, generic_clients, next_id>>
       ELSE IF username = "" THEN
           /\ resp' = [resp EXCEPT ![w] = Response("internal", 0, 400)]
           /\ UNCHANGED <<logs, generic_clients, next_id>>
       ELSE IF event \in {"already_attached", "heartbeat"} THEN
           /\ generic_clients' = ClientsAfterEvent(generic_clients, event, username, now)
           /\ resp' = [resp EXCEPT ![w] = Response("internal", 0, 200)]
           /\ UNCHANGED <<logs, next_id>>
       ELSE IF event \in {"attached", "disconnected"}
               \/ (event = "log" /\ message # "") THEN
           /\ generic_clients' = ClientsAfterEvent(generic_clients, event, username, now)
           /\ next_id' = next_id + 1
           /\ IF store_entry_panics(logs, max_entries) THEN
                  /\ resp' = [resp EXCEPT ![w] = Dropped("internal")]
                  /\ UNCHANGED logs
              ELSE
                  /\ logs' = store_entry(logs, max_entries,
                                         EventEntry(event, username, message, next_id, now))
                  /\ resp' = [resp EXCEPT ![w] =
                                  [Response("internal", 0, 200) EXCEPT !.id = next_id]]
       ELSE
           /\ resp' = [resp EXCEPT ![w] = Response("internal", 0, 400)]
           /\ UNCHANGED <<logs, generic_clients, next_id>>
    /\ UNCHANGED <<files, manifests, dirs, active_scans, now, wk, ghosts,
                   max_entries, reaper_due, reaper_alive, hvars>>

\* DELETE /logs: check_secret, then logs.clear(); the answer carries the
\* number of entries cleared
DeleteLogs(w, provided) ==
    /\ wk[w].pc = "idle"
    /\ IF ~check_secret(provided) THEN
           /\ resp' = [resp EXCEPT ![w] = Response("delete_logs", 0, 401)]
           /\ UNCHANGED logs
       ELSE
           /\ logs' = <<>>
           /\ resp' = [resp EXCEPT ![w] =
                           [Response("delete_logs", 0, 200) EXCEPT !.cleared = Len(logs)]]
    /\ UNCHANGED <<files, manifests, dirs, active_scans, now, wk, ghosts,
                   generic_clients, next_id, max_entries, reaper_due,
                   reaper_alive, hvars>>

\* the clients of the map that are connected, as values() gives them
RECURSIVE ConnectedClients(_, _)
ConnectedClients(order, clients) ==
    IF order = <<>> THEN <<>>
    ELSE LET c == clients[Head(order)]
         IN  (IF c # <<>> /\ c[1].connected THEN c ELSE <<>>)
                 \o ConnectedClients(Tail(order), clients)

\* GET /clients in generic mode: no secret is asked; the answer lists the
\* connected clients
GetClients(w, order) ==
    /\ wk[w].pc = "idle"
    /\ resp' = [resp EXCEPT ![w] =
                    [Response("get_clients", 0, 200) EXCEPT
                         !.data = ConnectedClients(order, generic_clients)]]
    /\ UNCHANGED <<files, manifests, dirs, active_scans, now, wk, ghosts, nreq,
                   hvars, lvars>>

\* now.signed_duration_since(last_heartbeat).num_seconds(): the whole
\* seconds between two instants, the fraction dropped
num_seconds(at, since) == (at - since) \div TicksPerSecond

\* the reaper's loop over clients.values_mut(), taken in the given order of
\* users: a connected client silent for more than timeout_secs is marked
\* disconnected and a timeout entry stored as store_entry stores; st holds
\* the clients, the log, the next uuid and whether the task still runs
RECURSIVE ReapClients(_, _, _, _)
ReapClients(order, st, at, max) ==
    IF order = <<>> \/ ~st.alive THEN st
    ELSE LET u == Head(order)
             c == st.clients[u]
         IN  IF c # <<>> /\ c[1].connected
                /\ num_seconds(at, c[1].last_heartbeat) > TimeoutSecs THEN
                 LET marked == [st.clients EXCEPT ![u] = <<[c[1] EXCEPT !.connected = FALSE]>>]
                     entry == LogEntry(st.next_id, at, "info",
                                       <<"heartbeat timeout", u>>, "xeno-mcp", u,
                                       <<"internal", "disconnected", "timeout", "generic">>)
                 IN  IF store_entry_panics(st.logs, max) THEN
                         [st EXCEPT !.clients = marked, !.next_id = @ + 1,
                                    !.alive = FALSE]
                     ELSE ReapClients(Tail(order),
                                      [st EXCEPT !.clients = marked,
                                                 !.next_id = @ + 1,
                                                 !.logs = store_entry(st.logs, max, entry)],
                                      at, max)
             ELSE ReapClients(Tail(order), st, at, max)

\* the orders in which values_mut() may give the clients
UserOrders == {<<"u">>}

\* one pass of the reaper task once its sleep has ended; the task sleeps
\* again, or is gone when it panicked
ReaperPass(order) ==
    /\ reaper_alive
    /\ now >= reaper_due
    /\ LET st == ReapClients(order,
                             [clients |-> generic_clients, logs |-> logs,
                              next_id |-> next_id, alive |-> TRUE],
                             now, max_entries)
       IN  /\ generic_clients' = st.clients
           /\ logs' = st.logs
           /\ next_id' = st.next_id
           /\ reaper_alive' = st.alive
    /\ reaper_due' = now + ReaperPeriod * TicksPerSecond
    /\ UNCHANGED <<files, manifests, dirs, active_scans, now, wk, resp, ghosts,
                   nreq, max_entries, hvars>>

\* secs ticks of the clock pass
Sleep(secs, limit) ==
    /\ now + secs <= limit
    /\ now' = now + secs
    /\ UNCHANGED <<files, manifests, dirs, active_scans, wk, resp, ghosts,
                   nreq, hvars, lvars>>

\* hex::encode(HMAC::mac(script, secret)): a digest that tells apart any two
\* pairs of script and secret
HmacHex(script, secret) == <<"hmac", script, secret>>

\* POST /verify-script: check_secret is not called; the header the request
\* carries (provided) is not read. Without a configured secret every
\* signature is valid
VerifyScript(w, script, signature, provided) ==
    /\ wk[w].pc = "idle"
    /\ resp' = [resp EXCEPT ![w] =
                    [Response("verify_script", 0, 200)
                        EXCEPT !.valid = IF args_secret = <<>> THEN TRUE
                                         ELSE signature = HmacHex(script, args_secret[1])]]
    /\ UNCHANGED <<files, manifests, dirs, active_scans, now, wk, ghosts,
                   hvars, lvars>>

\* time passes
Tick ==
    /\ now < MaxClock
    /\ now' = now + 1
    /\ UNCHANGED <<files, manifests, dirs, active_scans, wk, resp, ghosts,
                   nreq, hvars, lvars>>

(***************************************************************************)
(* Inputs of the handlers and the specifications.                          *)
(***************************************************************************)
\* X-Xeno-Secret as sent: the secret, or no header
Headers == {"k", ""}

\* tree chunks: an array of one node, and an array of a node with a child
\* (its records are not in sorted order)
chunkA == JArr(<<nodeA>>)
chunkC == JArr(<<nodeC>>)
\* tree payloads of the scan life cycle: an array, and a single node sent
\* without an array
TreeData == {chunkC, nodeB}

\* remotes and properties entries
entryA == JObj(sM, sEmpty, sWA, <<>>)
entryB == JObj(sM, sEmpty, sWB, <<>>)

\* scripts chunks: a script with source and one without; and a payload that
\* is no array
scriptA == JScript(sM, sWA, <<65, Newline, 66>>)
scriptB == JScript(sM, sWB, sEmpty)

\* a request that counts against the bound n of a specification
Budget(n) ==
    /\ nreq < n
    /\ nreq' = nreq + 1

Init == SysInit /\ HashIdle

(***************************************************************************)
(* Spec: the life of a scan, one request at a time. Tree chunks and a      *)
(* chunk of unknown type, finalize, cancel, delete and the manifest query, *)
(* for both places.                                                        *)
(***************************************************************************)
ScanChunks ==
    [chunk_type : {"tree"}, data : TreeData]
    \cup [chunk_type : {"bogus"}, data : {chunkA}]

Next ==
    \/ \E p \in Targets, c \in ScanChunks, h \in Headers :
           Budget(MaxReq) /\ ScanData_Begin(1, p, c.chunk_type, c.data, h)
    \/ \E io \in IoOutcomes : Append_Open(1, io)
    \/ \E io \in IoOutcomes : Append_Write(1, io)
    \/ \E p \in Targets, v \in {1, 2}, h \in Headers :
           Budget(MaxReq) /\ Complete_Begin(1, CompleteRequest(p, v), h)
    \/ Manifest_Load(1)
    \/ \E io_dir \in IoOutcomes, io_write \in IoOutcomes : Manifest_Write(1, io_dir, io_write)
    \/ Complete_Done(1)
    \/ \E p \in Targets \cup {0}, h \in Headers :
           Budget(MaxReq) /\ ScanCancel(1, p, h)
    \/ \E p \in Targets, h \in Headers : Budget(MaxReq) /\ Delete_Begin(1, p, h)
    \/ \E io \in IoOutcomes : Delete_Remove(1, io)
    \/ \E p \in Targets : GetGame(1, p) /\ UNCHANGED nreq
    \/ Tick

Spec == Init /\ [][Next]_vars

(***************************************************************************)
(* SpecStore: the chunk store, one request at a time. Chunks of every      *)
(* type for one place, finalize and delete.                                *)
(***************************************************************************)
StoreChunks ==
    [chunk_type : {"tree"}, data : {chunkA, nodeB}]
    \cup [chunk_type : {"remotes", "properties"}, data : {JArr(<<entryA, entryB>>), entryB}]
    \cup [chunk_type : {"scripts"}, data : {JArr(<<scriptA, scriptB>>), scriptA}]
    \cup [chunk_type : {"services"}, data : {JArr(<<nodeA>>), nodeB}]

NextStore ==
    \/ \E c \in StoreChunks :
           Budget(MaxStoreReq) /\ ScanData_Begin(1, 1, c.chunk_type, c.data, "k")
    \/ \E io \in IoOutcomes : Append_Open(1, io)
    \/ \E io \in IoOutcomes : Append_Write(1, io)
    \/ \E io_dir \in IoOutcomes, io_write \in IoOutcomes : Save_Write(1, io_dir, io_write)
    \/ Budget(MaxStoreReq) /\ Complete_Begin(1, CompleteRequest(1, 1), "k")
    \/ Manifest_Load(1)
    \/ \E io_dir \in IoOutcomes, io_write \in IoOutcomes : Manifest_Write(1, io_dir, io_write)
    \/ Complete_Done(1)
    \/ Budget(MaxStoreReq) /\ Delete_Begin(1, 1, "k")
    \/ \E io \in IoOutcomes : Delete_Remove(1, io)

SpecStore == Init /\ [][NextStore]_vars

(***************************************************************************)
(* SpecRescan: one place scanned again and again, one request at a time.   *)
(***************************************************************************)
NextRescan ==
    \/ \E d \in {chunkA, chunkC} :
           Budget(MaxRescanReq) /\ ScanData_Begin(1, 1, "tree", d, "k")
    \/ Append_Open(1, "ok")
    \/ Append_Write(1, "ok")
    \/ Budget(MaxRescanReq) /\ Complete_Begin(1, CompleteRequest(1, 1), "k")
    \/ Manifest_Load(1)
    \/ Manifest_Write(1, "ok", "ok")
    \/ Complete_Done(1)
    \/ Budget(MaxRescanReq) /\ Delete_Begin(1, 1, "k")
    \/ Delete_Remove(1, "ok")

SpecRescan == Init /\ [][NextRescan]_vars

(***************************************************************************)
(* SpecRace: two handlers at once on one place. Each step of a handler is  *)
(* atomic; the steps of the two interleave freely.                         *)
(***************************************************************************)
NextRace ==
    \E w \in AllWorkers :
        \/ \E d \in {chunkA, chunkC} :
               Budget(MaxRaceReq) /\ ScanData_Begin(w, 1, "tree", d, "k")
        \/ \E io \in IoOutcomes : Append_Open(w, io)
        \/ \E io \in IoOutcomes : Append_Write(w, io)

SpecRace == Init /\ [][NextRace]_vars

(***************************************************************************)
(* Properties.                                                             *)
(***************************************************************************)
\* the permutations of 1..n
Perms(n) ==
    {f \in [1..n -> 1..n] : \A i, j \in 1..n : i # j => f[i] # f[j]}

\* the array stored after the payloads of h were appended in order to an
\* absent file
RECURSIVE StoredAfter(_)
StoredAfter(h) ==
    IF h = <<>> THEN <<>>
    ELSE ExtendWith(StoredAfter(SubSeq(h, 1, Len(h) - 1)), h[Len(h)])

\* the concatenation of payloads: an array gives its elements, any other
\* payload gives itself
RECURSIVE ConcatPayloads(_)
ConcatPayloads(h) ==
    IF h = <<>> THEN <<>>
    ELSE (IF Head(h).t = "arr" THEN Head(h).items ELSE <<Head(h)>>)
         \o ConcatPayloads(Tail(h))

\* C1: tree chunks submitted one after another to a place whose tree file
\* was absent, then finalized: the manifest's tree_hash is the hash reached
\* by every other order of the same chunks
C1_HashSubmissionOrderFree ==
    \A w \in AllWorkers :
        (resp[w].op = "scan_complete" /\ resp[w].status = 200) =>
            LET h == g_hist[resp[w].place_id]["tree.json"]
            IN  \A f \in Perms(Len(h)) :
                    resp[w].manifest[1].tree_hash =
                        compute_tree_hash(JArr(StoredAfter([i \in 1..Len(h) |-> h[f[i]]])))

\* a finalize after two different tree chunks whose records are not in
\* sorted order as stored
C1_Witness ==
    \E w \in AllWorkers :
        /\ resp[w].op = "scan_complete"
        /\ resp[w].status = 200
        /\ LET h == g_hist[resp[w].place_id]["tree.json"]
           IN  /\ Len(h) >= 2
               /\ h[1] # h[2]
               /\ collect_hash_entries(JArr(StoredAfter(h)))
                      # SortEntries(collect_hash_entries(JArr(StoredAfter(h))))

\* C3: a place scanned and finalized, then scanned again with the same tree
\* chunks and finalized again: both manifests carry the same tree_hash
C3_RescanSameHash ==
    \A p \in Targets :
        (Len(g_scans[p]) = 2 /\ g_scans[p][1].chunks = g_scans[p][2].chunks) =>
            g_scans[p][1].tree_hash = g_scans[p][2].tree_hash

\* C4: after successful appends, one at a time, to a file that was absent,
\* the stored array is the concatenation of the payloads in submission order
C4_AppendConcatenates ==
    \A p \in Targets : \A f \in {"tree.json", "remotes.json", "properties.json"} :
        files[p][f] =
            IF g_hist[p][f] = <<>> THEN <<>>
            ELSE <<to_string_pretty(JArr(ConcatPayloads(g_hist[p][f])))>>

\* an array payload and then a payload that is no array, both stored
C4_Witness ==
    \E p \in Targets : \E f \in {"tree.json", "remotes.json", "properties.json"} :
        /\ Len(g_hist[p][f]) = 2
        /\ g_hist[p][f][1].t = "arr"
        /\ Len(g_hist[p][f][1].items) = 2
        /\ g_hist[p][f][2].t = "obj"
        /\ load_file(files[p][f]) # <<>>
        /\ Len(load_file(files[p][f])[1].items) = 3

\* C5: an append writes back the array it read extended by its items,
\* whatever was written to the file since it read: the read-modify-write is
\* not atomic, and of two overlapping appends that both succeed one is lost
C5_WriteBackOfSnapshot ==
    [][\A w \in AllWorkers :
          (wk[w].pc = "append_write" /\ wk'[w].pc = "idle" /\ resp'[w].status = 200) =>
              files'[wk[w].place_id][Head(wk[w].todo).file] =
                  <<to_string_pretty(JArr(ConcatPayloads(
                        <<JArr(wk[w].existing), Head(wk[w].todo).items>>)))>>]_vars

\* both submissions answered 200, the file holds the items of the second
\* writer only
C5_Witness ==
    /\ \A w \in AllWorkers :
           /\ wk[w].pc = "idle"
           /\ resp[w].op = "scan_data"
           /\ resp[w].status = 200
    /\ Len(g_hist[1]["tree.json"]) = 2
    /\ g_hist[1]["tree.json"][1] # g_hist[1]["tree.json"][2]
    /\ files[1]["tree.json"] =
           <<to_string_pretty(JArr(ConcatPayloads(<<g_hist[1]["tree.json"][2]>>)))>>

\* C6: a place has a session exactly when a chunk for it was accepted since
\* its most recent finalize or cancel
C6_SessionIffChunkSince ==
    \A p \in Targets : (active_scans[p] # <<>>) <=> g_chunk[p]

\* a finalize of the place succeeded and removed its session, and a later
\* chunk opened a new one
C6_Witness ==
    \E p \in Targets :
        /\ active_scans[p] # <<>>
        /\ g_scans[p] # <<>>
        /\ wk[1].pc = "idle"

\* C7: once finalize has returned, with the manifest or with an error, the
\* place has no session
C7_FinalizeRemovesSession ==
    \A w \in AllWorkers :
        (resp[w].op = "scan_complete" /\ resp[w].status \in {200, 500}) =>
            active_scans[resp[w].place_id] = <<>>

\* a finalize that failed to persist its manifest and removed a session
C7_Witness ==
    \E w \in AllWorkers :
        /\ resp[w].op = "scan_complete"
        /\ resp[w].status = 500
        /\ resp[w].removed
        /\ active_scans[resp[w].place_id] = <<>>

\* C8: an authenticated delete that meets no file-system error answers
\* success and leaves no scope file and no manifest of the place, whatever
\* was stored before
C8_DeleteRemovesEverything ==
    \A w \in AllWorkers :
        (resp[w].op = "delete_game" /\ resp[w].status \notin {401, 500}) =>
            /\ resp[w].status = 200
            /\ \A f \in ScopeFiles : load_file(files[resp[w].place_id][f]) = <<>>
            /\ load_file(manifests[resp[w].place_id]) = <<>>

\* C9: the manifest query answers 404 when no finalize has succeeded since
\* the place was last deleted, and else the manifest of the most recent
\* successful finalize
C9_ManifestIsLatest ==
    \A w \in AllWorkers :
        resp[w].op = "get_game" =>
            LET p == resp[w].place_id
            IN  IF g_lastfin[p] = <<>>
                    THEN resp[w].status = 404 /\ resp[w].manifest = <<>>
                    ELSE resp[w].status = 200 /\ resp[w].manifest = g_lastfin[p]

\* the query after two finalizes of the place with different metadata
C9_Witness ==
    \E w \in AllWorkers :
        /\ resp[w].op = "get_game"
        /\ resp[w].status = 200
        /\ Len(g_scans[resp[w].place_id]) = 2
        /\ resp[w].manifest[1].game_id = 2

\* C10: the services file holds the payload of the most recent successful
\* services write, and nothing of the earlier ones
C10_ServicesOverwritten ==
    \A p \in Targets :
        files[p]["services.json"] =
            IF g_svc[p] = <<>> THEN <<>>
            ELSE <<to_string_pretty(g_svc[p][Len(g_svc[p])])>>

\* two services writes with different payloads
C10_Witness ==
    \E p \in Targets :
        /\ Len(g_svc[p]) = 2
        /\ g_svc[p][1] # g_svc[p][2]
        /\ files[p]["services.json"] = <<to_string_pretty(g_svc[p][2])>>

\* C11: a cancel answers found exactly when the place had a session, leaves
\* the place without a session, and leaves every scope file and manifest of
\* every place as it was
C11_CancelFrame ==
    [][\A w \in AllWorkers : \A p \in Targets :
          ScanCancel(w, p, args_secret[1]) =>
              /\ resp'[w].removed = (active_scans[p] # <<>>)
              /\ resp'[w].status = (IF active_scans[p] # <<>> THEN 200 ELSE 404)
              /\ active_scans'[p] = <<>>
              /\ \A q \in Targets \ {p} : active_scans'[q] = active_scans[q]
              /\ files' = files
              /\ manifests' = manifests
              /\ dirs' = dirs]_vars

\* a cancel that found a session, for a place with a stored tree file
C11_Witness ==
    \E w \in AllWorkers :
        /\ resp[w].op = "scan_cancel"
        /\ resp[w].status = 200
        /\ resp[w].removed
        /\ active_scans[resp[w].place_id] = <<>>
        /\ files[resp[w].place_id]["tree.json"] # <<>>


(***************************************************************************)
(* SpecCancel: chunks of place 1 handled step by step on worker 1 while    *)
(* worker 2 cancels the place's scan. No file operation fails. FairCancel  *)
(* adds that a running handler takes its next step.                        *)
(***************************************************************************)
NextCancel ==
    \/ \E d \in {chunkA, chunkC} :
           Budget(MaxCancelReq) /\ ScanData_Begin(1, 1, "tree", d, "k")
    \/ Append_Open(1, "ok")
    \/ Append_Write(1, "ok")
    \/ Budget(MaxCancelReq) /\ ScanCancel(2, 1, "k")

SpecCancel ==
    /\ Init
    /\ [][NextCancel]_vars
    /\ WF_vars(Append_Open(1, "ok"))
    /\ WF_vars(Append_Write(1, "ok"))

\* the handler of w is between its session update and the end of its write,
\* and the session is gone
CancelledInFlight(w) ==
    /\ wk[w].pc \in {"append_open", "append_write"}
    /\ active_scans[wk[w].place_id] = <<>>

\* s ends with t
EndsWith(s, t) ==
    /\ Len(t) <= Len(s)
    /\ SubSeq(s, Len(s) - Len(t) + 1, Len(s)) = t

\* w's chunk was answered 200, its items are the end of the place's tree
\* file, and the place has no session
StoredWithoutSession(w) ==
    /\ wk[w].pc = "idle"
    /\ resp[w].op = "scan_data"
    /\ resp[w].status = 200
    /\ active_scans[resp[w].place_id] = <<>>
    /\ LET slot == files[resp[w].place_id]["tree.json"]
       IN  /\ slot # <<>>
           /\ EndsWith(from_str_vec(slot[1]), ConcatPayloads(resp[w].sent))

\* C12: a cancel changes no scope file and no running handler, and a chunk
\* handler whose session was cancelled while it ran still ends with 200, its
\* data stored and no session
C12_CancelStopsNoWrite ==
    /\ [][\A w \in AllWorkers : \A p \in Targets :
              ScanCancel(w, p, args_secret[1]) => (files' = files /\ wk' = wk)]_vars
    /\ \A w \in AllWorkers : CancelledInFlight(w) ~> StoredWithoutSession(w)

\* one chunk and one cancel: the cancel ran while the chunk's handler did,
\* the chunk is stored and the place has no session
C12_Witness ==
    /\ nreq = 2
    /\ resp[2].op = "scan_cancel"
    /\ resp[2].status = 200
    /\ 1 \in resp[2].overlap
    /\ StoredWithoutSession(1)


(***************************************************************************)
(* SpecDamage: one place, one request at a time, and a tree file that may  *)
(* be damaged between requests. No file operation of the server fails.     *)
(***************************************************************************)
NextDamage ==
    \/ \E d \in {chunkA, nodeB} :
           Budget(MaxDamageReq) /\ ScanData_Begin(1, 1, "tree", d, "k")
    \/ Append_Open(1, "ok")
    \/ Append_Write(1, "ok")
    \/ \E text \in DamagedTexts :
           Budget(MaxDamageReq) /\ wk[1].pc = "idle" /\ Damage(1, "tree.json", text)
    \/ Budget(MaxDamageReq) /\ Complete_Begin(1, CompleteRequest(1, 1), "k")
    \/ Manifest_Load(1)
    \/ Manifest_Write(1, "ok", "ok")
    \/ Complete_Done(1)
    \/ GetGameScope(1, 1, "tree", NoQuery)

SpecDamage == Init /\ [][NextDamage]_vars

\* the file exists and its content cannot be read, or is no JSON array
Unusable(slot) ==
    /\ slot # <<>>
    /\ (~slot[1].utf8 \/ ~slot[1].valid \/ slot[1].doc.t # "arr")

\* the file exists, can be read and is not JSON
Malformed(slot) ==
    /\ slot # <<>>
    /\ slot[1].utf8
    /\ ~slot[1].valid

\* C13: an append that meets an existing file it cannot read or cannot parse
\* as an array goes on with an empty array, and the write of an append that
\* went on with an empty array answers 200 and leaves exactly the submitted
\* items in the file
C13_LenientAppend ==
    [][\A w \in AllWorkers :
          /\ (/\ Append_Open(w, "ok")
              /\ Unusable(files[wk[w].place_id][Head(wk[w].todo).file]))
                 => (wk'[w].pc = "append_write" /\ wk'[w].existing = <<>>)
          /\ (/\ Append_Write(w, "ok")
              /\ wk[w].existing = <<>>
              /\ Len(wk[w].todo) = 1)
                 => /\ resp'[w].status = 200
                    /\ files'[wk[w].place_id][Head(wk[w].todo).file] =
                           <<to_string_pretty(JArr(ConcatPayloads(
                                 <<Head(wk[w].todo).items>>)))>>]_vars

\* C14: every operation that reads a scope file holding malformed JSON goes
\* on as if the file held empty data: the append with an empty array, the
\* finalize with the hash of the empty tree, the scope query with an empty
\* result
C14_MalformedReadAsEmpty ==
    [][\A w \in AllWorkers :
          /\ (/\ Append_Open(w, "ok")
              /\ Malformed(files[wk[w].place_id][Head(wk[w].todo).file]))
                 => (wk'[w].pc = "append_write" /\ wk'[w].existing = <<>>)
          /\ (/\ Manifest_Load(w)
              /\ Malformed(files[wk[w].place_id]["tree.json"]))
                 => wk'[w].manifest[1].tree_hash = compute_tree_hash(JArr(<<>>))
          /\ \A p \in Targets : \A scope \in ScopeNames :
                (/\ GetGameScope(w, p, scope, NoQuery)
                 /\ Malformed(files[p][ScopeFile(scope, NoQuery)]))
                    => /\ resp'[w].status = 200
                       /\ resp'[w].data = <<JArr(<<>>)>>]_vars


\* C15: a finalize of a place that has no tree file answers 200, and the
\* manifest's tree_hash is the hash of the empty tree: the digest of no
\* record at all
C15_FinalizeWithoutTree ==
    \A w \in AllWorkers :
        (/\ resp[w].op = "scan_complete"
         /\ files[resp[w].place_id]["tree.json"] = <<>>) =>
            /\ resp[w].status = 200
            /\ resp[w].manifest[1].tree_hash = compute_tree_hash(JArr(<<>>))
            /\ resp[w].manifest[1].tree_hash = Sha256Hex(<<>>)

\* a finalize answered with a manifest, stored, for a place without a tree
\* file
C15_Witness ==
    \E w \in AllWorkers :
        /\ resp[w].op = "scan_complete"
        /\ resp[w].status = 200
        /\ files[resp[w].place_id]["tree.json"] = <<>>
        /\ manifests[resp[w].place_id] = <<to_string_pretty(resp[w].manifest[1])>>


(***************************************************************************)
(* SpecQuery: chunks of every scope stored for place 1, one request at a   *)
(* time and no file operation failing, and scope queries with every        *)
(* combination of query parameters. A query is sent at the start or after  *)
(* a chunk: a second query in a row would meet the same stored state.      *)
(***************************************************************************)
\* "W.A.B", "W.A.B.C", "W.A.B.C.A": the paths below W.A
sWAB == <<87, 46, 65, 46, 66>>
sWABC == <<87, 46, 65, 46, 66, 46, 67>>
sWABCA == <<87, 46, 65, 46, 66, 46, 67, 46, 65>>

\* a node with three levels of descendants
nodeDeep ==
    JObj(sM, sA, sWA,
         <<JArr(<<JObj(sP, sB, sWAB,
                       <<JArr(<<JObj(sP, sC, sWABC,
                                     <<JArr(<<JObj(sP, sA, sWABCA, <<>>)>>)>>),
                                nodeB>>)>>),
                  nodeA>>)>>)

\* services entries: a name and no path
svcA == JObj(sM, sWA, sEmpty, <<>>)
svcB == JObj(sP, sB, sEmpty, <<>>)

\* the chunk of each scope
QueryChunks ==
    {[chunk_type |-> "tree", data |-> JArr(<<nodeDeep, nodeB, nodeA, nodeC>>)],
     [chunk_type |-> "scripts", data |-> JArr(<<scriptA, scriptB>>)],
     [chunk_type |-> "remotes", data |-> JArr(<<entryA, entryB>>)],
     [chunk_type |-> "services", data |-> JArr(<<svcA, svcB>>)]}

\* query parameters: the prefix "w.a", the classes "m" and "p", the searches "A" and
\* "LINE", include_source, and max_depth up to MaxDepth
Queries ==
    {GameQuery(pth, srch, cls, inc, dep) :
        pth \in {<<>>, <<<<119, 46, 97>>>>},
        srch \in {<<>>, <<sA>>, <<<<76, 73, 78, 69>>>>},
        cls \in {<<>>, <<<<109>>>>, <<<<112>>>>},
        inc \in {<<>>, <<TRUE>>},
        dep \in {<<>>} \cup {<<d>> : d \in 0..MaxDepth}}

NextQuery ==
    \/ \E c \in QueryChunks :
           Budget(MaxQueryReq) /\ ScanData_Begin(1, 1, c.chunk_type, c.data, "k")
    \/ Append_Open(1, "ok")
    \/ Append_Write(1, "ok")
    \/ Save_Write(1, "ok", "ok")
    \/ \E scope \in ScopeNames \cup {"bogus"} : \E q \in Queries :
           resp[1].op # "get_scope" /\ GetGameScope(1, 1, scope, q)

SpecQuery == Init /\ [][NextQuery]_vars

\* C16: a scope query with an unknown scope name is answered 400 whether or
\* not data is stored, one with a valid name whose file is absent 404, and
\* no query changes a file, a manifest or a session
C16_ScopeValidation ==
    [][\A w \in AllWorkers :
          (resp'[w].op = "get_scope" /\ resp'[w] # resp[w]) =>
              LET scope == resp'[w].sent[1].scope
                  q == resp'[w].sent[1].q
                  p == resp'[w].place_id
              IN  /\ scope \notin {"tree", "scripts", "remotes", "properties",
                                   "services"} => resp'[w].status = 400
                  /\ (/\ scope \in {"tree", "remotes", "properties", "services"}
                      /\ files[p][scope \o ".json"] = <<>>)
                         => resp'[w].status = 404
                  /\ (/\ scope = "scripts"
                      /\ files[p][IF q.include_source = <<TRUE>>
                                      THEN "scripts_full.json"
                                      ELSE "scripts.json"] = <<>>)
                         => resp'[w].status = 404
                  /\ UNCHANGED <<files, manifests, dirs, active_scans>>]_vars

\* an unknown scope name answered 400 for a place that has a stored tree
C16_Witness ==
    \E w \in AllWorkers :
        /\ resp[w].op = "get_scope"
        /\ resp[w].status = 400
        /\ resp[w].sent[1].scope = "bogus"
        /\ files[resp[w].place_id]["tree.json"] # <<>>


\* the last n elements of s
LastN(s, n) == SubSeq(s, Len(s) - n + 1, Len(s))

\* C17: after a scripts chunk of n records, k of them with source, was
\* answered 200, the outline file is longer by n and ends with one entry
\* per record in submission order, an entry having an outline exactly when
\* its record has source; the full-source file is longer by k and ends with
\* the path and source of the records with source, in submission order
C17_ScriptsChunkAppends ==
    \A w \in AllWorkers :
        (/\ resp[w].op = "scan_data"
         /\ resp[w].status = 200
         /\ resp[w].chunk_type = "scripts") =>
            LET p == resp[w].place_id
                recs == resp[w].sent[1].items
                srcs == SelectSeq(recs, LAMBDA r : r.source # sEmpty)
                n == Len(recs)
                k == Len(srcs)
                outl == from_str_vec(files[p]["scripts.json"][1])
                full == from_str_vec(files[p]["scripts_full.json"][1])
                h1 == g_hist[p]["scripts.json"]
                h2 == g_hist[p]["scripts_full.json"]
            IN  /\ Len(outl) = n + Len(ConcatPayloads(SubSeq(h1, 1, Len(h1) - 1)))
                /\ Len(full) = k + Len(ConcatPayloads(SubSeq(h2, 1, Len(h2) - 1)))
                /\ \A i \in 1..n :
                       LET e == LastN(outl, n)[i]
                       IN  /\ e.path = recs[i].path
                           /\ e.class_name = recs[i].class_name
                           /\ (e.outline # <<>>) <=> (recs[i].source # sEmpty)
                /\ \A i \in 1..k :
                       LET e == LastN(full, k)[i]
                       IN  /\ e.path = srcs[i].path
                           /\ e.source = srcs[i].source

\* a second scripts chunk of two records, one of them without source
C17_Witness ==
    \E w \in AllWorkers :
        /\ resp[w].op = "scan_data"
        /\ resp[w].status = 200
        /\ resp[w].chunk_type = "scripts"
        /\ Len(resp[w].sent[1].items) = 2
        /\ Len(SelectSeq(resp[w].sent[1].items, LAMBDA r : r.source # sEmpty)) = 1
        /\ Len(g_hist[resp[w].place_id]["scripts.json"]) = 2


\* the path filter of q is absent or e's path begins with it, whatever the
\* case of the letters; in the scopes filtered by filter_entries e's name
\* may begin with it instead
PathSat(scope, e, q) ==
    \/ q.path = <<>>
    \/ starts_with(to_lowercase(StrField(e, "path")), to_lowercase(q.path[1]))
    \/ /\ scope \in {"remotes", "properties", "services"}
       /\ starts_with(to_lowercase(StrField(e, "name")), to_lowercase(q.path[1]))

\* the class filter of q is absent or equal to e's class_name, whatever the
\* case of the letters
ClassSat(e, q) ==
    \/ q.class = <<>>
    \/ to_lowercase(StrField(e, "class_name")) = to_lowercase(q.class[1])

\* the search text of q is absent or occurs, whatever the case of the
\* letters, in e's path, in e's name (not looked at in the scripts scope), or
\* for a script in its serialized outline
SearchSat(scope, e, q) ==
    \/ q.search = <<>>
    \/ contains(to_lowercase(StrField(e, "path")), to_lowercase(q.search[1]))
    \/ /\ scope # "scripts"
       /\ contains(to_lowercase(StrField(e, "name")), to_lowercase(q.search[1]))
    \/ /\ scope = "scripts"
       /\ e.t = "obj"
       /\ e.outline # <<>>
       /\ contains(to_lowercase(OutlineJson(e.outline[1])), to_lowercase(q.search[1]))

\* the stored entries that satisfy every filter q supplies, in stored order
Matching(scope, items, q) ==
    SelectSeq(items, LAMBDA e : PathSat(scope, e, q) /\ ClassSat(e, q)
                                   /\ SearchSat(scope, e, q))

\* class_name, name and path of an entry
Identity(e) == <<StrField(e, "class_name"), StrField(e, "name"), StrField(e, "path")>>

\* the file a query reads, by the scope name and include_source it sent
QueriedSlot(r) ==
    files[r.place_id][IF r.sent[1].scope = "scripts"
                         THEN (IF r.sent[1].q.include_source = <<TRUE>>
                                  THEN "scripts_full.json" ELSE "scripts.json")
                         ELSE r.sent[1].scope \o ".json"]

\* C18: a scope query answered 200 over a stored array returns the stored
\* entries that satisfy every supplied path, class and search filter, in
\* stored order, and all of them when no filter is supplied; the entries are
\* returned as stored, but for the children max_depth prunes in the tree scope
C18_FiltersAndCombined ==
    \A w \in AllWorkers :
        (resp[w].op = "get_scope" /\ resp[w].status = 200) =>
            LET scope == resp[w].sent[1].scope
                q == resp[w].sent[1].q
                stored == QueriedSlot(resp[w])[1].doc.items
                want == Matching(scope, stored, q)
                got == resp[w].data[1].items
            IN  /\ Len(got) = Len(want)
                /\ \A i \in 1..Len(want) : Identity(got[i]) = Identity(want[i])
                /\ (scope # "tree" \/ q.max_depth = <<>>) => got = want
                /\ (q.path = <<>> /\ q.class = <<>> /\ q.search = <<>>) =>
                       Len(got) = Len(stored)

\* a tree query with all three filters: an entry is returned, and an entry
\* that fails the class filter alone is not
C18_Witness ==
    \E w \in AllWorkers :
        /\ resp[w].op = "get_scope"
        /\ resp[w].status = 200
        /\ resp[w].sent[1].scope = "tree"
        /\ LET q == resp[w].sent[1].q
               stored == QueriedSlot(resp[w])[1].doc.items
           IN  /\ q.path # <<>> /\ q.class # <<>> /\ q.search # <<>>
               /\ resp[w].data[1].items # <<>>
               /\ \E i \in 1..Len(stored) :
                      /\ PathSat("tree", stored[i], q)
                      /\ SearchSat("tree", stored[i], q)
                      /\ ~ClassSat(stored[i], q)


\* res is the stored node orig cut at depth d, depth being the depth of the
\* two: from depth d on a node has no children field, above it a node has
\* the children of the stored node, each cut in the same way
RECURSIVE CutAtDepth(_, _, _, _)
CutAtDepth(orig, res, depth, d) ==
    /\ Identity(res) = Identity(orig)
    /\ IF depth >= d THEN res.children = <<>>
       ELSE /\ (res.children = <<>>) <=> (orig.children = <<>>)
            /\ orig.children # <<>> =>
                   /\ res.children[1].t = "arr"
                   /\ Len(res.children[1].items) = Len(orig.children[1].items)
                   /\ \A i \in 1..Len(orig.children[1].items) :
                          CutAtDepth(orig.children[1].items[i],
                                     res.children[1].items[i], depth + 1, d)

\* C19: in a tree query answered 200 with max_depth = d the returned
\* top-level nodes are the matching stored nodes cut at depth d (top level is
\* depth 0): no node at depth >= d has children, every node above keeps all
\* of its children; in every other scope max_depth changes nothing
C19_MaxDepthPrunes ==
    \A w \in AllWorkers :
        (/\ resp[w].op = "get_scope"
         /\ resp[w].status = 200
         /\ resp[w].sent[1].q.max_depth # <<>>) =>
            LET scope == resp[w].sent[1].scope
                q == resp[w].sent[1].q
                stored == QueriedSlot(resp[w])[1].doc
                got == resp[w].data[1].items
                want == Matching(scope, stored.items, q)
            IN  IF scope = "tree"
                   THEN /\ Len(got) = Len(want)
                        /\ \A i \in 1..Len(want) :
                               CutAtDepth(want[i], got[i], 0, q.max_depth[1])
                   ELSE resp[w].data[1] =
                            ScopeFiltered(scope, stored, [q EXCEPT !.max_depth = <<>>])

\* a tree query with max_depth = 1 that returns a node with its children,
\* one of which was stored with children of its own and is returned without
C19_Witness ==
    \E w \in AllWorkers :
        /\ resp[w].op = "get_scope"
        /\ resp[w].status = 200
        /\ resp[w].sent[1].scope = "tree"
        /\ resp[w].sent[1].q.max_depth = <<1>>
        /\ LET stored == QueriedSlot(resp[w])[1].doc.items
               got == resp[w].data[1].items
           IN  \E i \in 1..Len(got), j \in 1..Len(stored) :
                  /\ Identity(got[i]) = Identity(stored[j])
                  /\ got[i].children # <<>>
                  /\ stored[j].children # <<>>
                  /\ \E k \in 1..Len(got[i].children[1].items) :
                         /\ got[i].children[1].items[k].children = <<>>
                         /\ stored[j].children[1].items[k].children # <<>>


(***************************************************************************)
(* SpecList: the list of games, one request at a time. Finalizes whose     *)
(* writes may fail and deletes of both places, while time passes, and the  *)
(* list read in either directory order.                                    *)
(***************************************************************************)
NextList ==
    \/ \E p \in Targets, v \in {1, 2} :
           Budget(MaxListReq) /\ Complete_Begin(1, CompleteRequest(p, v), "k")
    \/ Manifest_Load(1)
    \/ \E io_dir \in IoOutcomes, io_write \in IoOutcomes : Manifest_Write(1, io_dir, io_write)
    \/ Complete_Done(1)
    \/ \E p \in Targets : Budget(MaxListReq) /\ Delete_Begin(1, p, "k")
    \/ \E io \in IoOutcomes : Delete_Remove(1, io)
    \/ Tick
    \/ \E order \in DirOrders, io \in IoOutcomes : ListGames(1, order, io)

SpecList == Init /\ [][NextList]_vars

\* C20: a list of games answered 200 holds the persisted manifest of every
\* place that has one, once each, and nothing else, and a manifest never
\* comes after one with an earlier completion time: B finalized after A is
\* listed before A
C20_ListNewestFirst ==
    \A w \in AllWorkers :
        (resp[w].op = "get_games" /\ resp[w].status = 200) =>
            LET got == resp[w].data[1]
            IN  /\ \A p \in Targets :
                       manifests[p] # <<>> =>
                           \E i \in 1..Len(got) :
                               /\ got[i] = manifests[p][1].doc
                               /\ \A j \in 1..Len(got) :
                                      got[j].place_id = p => j = i
                /\ \A i \in 1..Len(got) :
                       /\ got[i].place_id \in Targets
                       /\ manifests[got[i].place_id] # <<>>
                /\ \A i, j \in 1..Len(got) :
                       got[i].scanned_at < got[j].scanned_at => j < i

\* place 1 was finalized, then place 2 at a later time: the list is the
\* manifest of place 2, then that of place 1
C20_Witness ==
    \E w \in AllWorkers :
        /\ resp[w].op = "get_games"
        /\ resp[w].status = 200
        /\ Len(resp[w].data[1]) = 2
        /\ resp[w].data[1][1].place_id = 2
        /\ resp[w].data[1][2].place_id = 1
        /\ resp[w].data[1][1].scanned_at > resp[w].data[1][2].scanned_at


(***************************************************************************)
(* SpecFrame: requests for two places, one at a time. Chunks of three      *)
(* scopes and of an unknown type, finalize, cancel and delete, with and    *)
(* without the secret, every file operation failing or not.                *)
(***************************************************************************)
FrameChunks ==
    [chunk_type : {"tree"}, data : {chunkA}]
    \cup [chunk_type : {"scripts"}, data : {JArr(<<scriptA>>), scriptA}]
    \cup [chunk_type : {"services"}, data : {JArr(<<svcA>>)}]
    \cup [chunk_type : {"bogus"}, data : {chunkA}]

NextFrame ==
    \/ \E p \in Targets, c \in FrameChunks, h \in Headers :
           Budget(MaxFrameReq) /\ ScanData_Begin(1, p, c.chunk_type, c.data, h)
    \/ \E io \in IoOutcomes : Append_Open(1, io)
    \/ \E io \in IoOutcomes : Append_Write(1, io)
    \/ \E io_dir \in IoOutcomes, io_write \in IoOutcomes : Save_Write(1, io_dir, io_write)
    \/ \E p \in Targets, h \in Headers :
           Budget(MaxFrameReq) /\ Complete_Begin(1, CompleteRequest(p, 1), h)
    \/ Manifest_Load(1)
    \/ \E io_dir \in IoOutcomes, io_write \in IoOutcomes : Manifest_Write(1, io_dir, io_write)
    \/ Complete_Done(1)
    \/ \E p \in Targets, h \in Headers : Budget(MaxFrameReq) /\ ScanCancel(1, p, h)
    \/ \E p \in Targets, h \in Headers : Budget(MaxFrameReq) /\ Delete_Begin(1, p, h)
    \/ \E io \in IoOutcomes : Delete_Remove(1, io)

SpecFrame == Init /\ [][NextFrame]_vars

\* the place the step of worker w is about: that of the request it goes on
\* with, or of the request it begins or answers at once
StepTarget(w) ==
    IF wk[w].pc # "idle" THEN wk[w].place_id
    ELSE IF wk'[w].pc # "idle" THEN wk'[w].place_id
    ELSE resp'[w].place_id

\* the files that hold the scope of a chunk type
FilesOfScope(chunk_type) ==
    IF chunk_type = "scripts" THEN {"scripts.json", "scripts_full.json"}
    ELSE IF chunk_type \in {"tree", "remotes", "properties", "services"}
        THEN {chunk_type \o ".json"}
    ELSE {}

\* C21: a step of a chunk submission, finalize, cancel or delete for a place
\* changes no scope file, manifest, directory or session of another place,
\* whether the request succeeds or fails; and a step of a chunk submission
\* changes no file of its own place but those of the chunk's scope
C21_OtherTargetsUntouched ==
    [][\A p \in Targets :
          /\ (\/ files'[p] # files[p]
              \/ manifests'[p] # manifests[p]
              \/ active_scans'[p] # active_scans[p]
              \/ (p \in dirs') # (p \in dirs)) => p = StepTarget(1)
          /\ \A f \in ScopeFiles :
                 (/\ files'[p][f] # files[p][f]
                  /\ wk[1].pc \in {"append_open", "append_write", "save_write"})
                     => f \in FilesOfScope(wk[1].chunk_type)]_vars

\* place 2 holds a tree file and a session, place 1 a tree file, and a
\* services chunk for place 1 has just been stored
C21_Witness ==
    /\ files[2]["tree.json"] # <<>>
    /\ active_scans[2] # <<>>
    /\ files[1]["tree.json"] # <<>>
    /\ files[1]["services.json"] # <<>>
    /\ resp[1].op = "scan_data"
    /\ resp[1].place_id = 1
    /\ resp[1].chunk_type = "services"
    /\ resp[1].status = 200


\* C22: an authenticated chunk submission of type s for place t leaves t
\* with a session whose progress is "receiving s"; a session that was there
\* keeps its place_id, status and started_at, one that was not starts now;
\* and a submission that meets a session already at "receiving s" leaves
\* the session map as it was
C22_TouchIdempotent ==
    [][\A p \in Targets, c \in ScanChunks :
          ScanData_Begin(1, p, c.chunk_type, c.data, args_secret[1]) =>
              /\ active_scans'[p] # <<>>
              /\ active_scans'[p][1].progress = <<"receiving", c.chunk_type>>
              /\ \A o \in Targets \ {p} : active_scans'[o] = active_scans[o]
              /\ active_scans[p] = <<>> =>
                     /\ active_scans'[p][1].started_at = now
                     /\ active_scans'[p][1].status = "scanning"
                     /\ active_scans'[p][1].place_id = p
              /\ active_scans[p] # <<>> =>
                     /\ active_scans'[p][1].started_at = active_scans[p][1].started_at
                     /\ active_scans'[p][1].status = active_scans[p][1].status
                     /\ active_scans'[p][1].place_id = active_scans[p][1].place_id
              /\ (/\ active_scans[p] # <<>>
                  /\ active_scans[p][1].progress = <<"receiving", c.chunk_type>>)
                     => active_scans' = active_scans]_vars

\* two requests so far, both chunks for place 1: the tree chunk is stored,
\* the chunk of unknown type came second and later, and the session still
\* has the start time of the first
C22_Witness ==
    /\ nreq = 2
    /\ files[1]["tree.json"] # <<>>
    /\ resp[1].op = "scan_data"
    /\ resp[1].place_id = 1
    /\ resp[1].status = 400
    /\ active_scans[1] # <<>>
    /\ active_scans[1][1].progress = <<"receiving", "bogus">>
    /\ active_scans[1][1].started_at = 0
    /\ now = 1


(***************************************************************************)
(* SpecAuth: the server started with a secret. POST and DELETE requests    *)
(* with the right header and without a header, one at a time, and a GET.   *)
(***************************************************************************)
\* a script and two signatures for it, the right one and another
VerifyInputs ==
    [script : {"s"}, signature : {HmacHex("s", args_secret[1]), <<"hmac", "s", "x">>}]

NextAuth ==
    \/ \E h \in Headers : Budget(MaxAuthReq) /\ ScanData_Begin(1, 1, "tree", chunkA, h)
    \/ Append_Open(1, "ok")
    \/ Append_Write(1, "ok")
    \/ \E h \in Headers : Budget(MaxAuthReq) /\ Complete_Begin(1, CompleteRequest(1, 1), h)
    \/ Manifest_Load(1)
    \/ Manifest_Write(1, "ok", "ok")
    \/ Complete_Done(1)
    \/ \E h \in Headers : Budget(MaxAuthReq) /\ ScanCancel(1, 1, h)
    \/ \E h \in Headers : Budget(MaxAuthReq) /\ Delete_Begin(1, 1, h)
    \/ Delete_Remove(1, "ok")
    \/ \E e \in {"attached", "log"}, h \in Headers :
           Budget(MaxAuthReq) /\ PostInternal(1, e, "u", "m", h)
    \/ \E h \in Headers : Budget(MaxAuthReq) /\ DeleteLogs(1, h)
    \/ \E v \in VerifyInputs, h \in Headers :
           Budget(MaxAuthReq) /\ VerifyScript(1, v.script, v.signature, h)
    \/ GetGame(1, 1)

SpecAuth == Init /\ [][NextAuth]_vars

\* the step answers worker w with 401 and changes nothing the server keeps
Rejected(w) ==
    /\ resp'[w].status = 401
    /\ UNCHANGED <<files, manifests, dirs, active_scans, logs, generic_clients>>

\* on this step the scanner, internal and logs requests sent without the
\* header are rejected and change nothing, and the GET is served
GatedRoutesReject ==
    /\ ScanData_Begin(1, 1, "tree", chunkA, "") => Rejected(1)
    /\ Complete_Begin(1, CompleteRequest(1, 1), "") => Rejected(1)
    /\ ScanCancel(1, 1, "") => Rejected(1)
    /\ Delete_Begin(1, 1, "") => Rejected(1)
    /\ (\E e \in {"attached", "log"} : PostInternal(1, e, "u", "m", "")) => Rejected(1)
    /\ DeleteLogs(1, "") => Rejected(1)
    /\ GetGame(1, 1) => resp'[1].status \in {200, 404}

\* C23: with a secret configured, every POST or DELETE request without an
\* X-Xeno-Secret header equal to the secret is answered 401 and changes no
\* session, file, log entry or client; GET requests are served
C23_SecretGatesWrites ==
    [][/\ GatedRoutesReject
       /\ (\E v \in VerifyInputs : VerifyScript(1, v.script, v.signature, ""))
              => Rejected(1)]_vars


(***************************************************************************)
(* SpecLog: the in-memory log in generic mode, for every --max-entries up  *)
(* to MaxEntries. Events of one client, DELETE /logs, the reaper, and the  *)
(* clock in steps of ten seconds.                                          *)
(***************************************************************************)
InitLog ==
    /\ AppInit
    /\ HashIdle
    /\ max_entries \in 0..MaxEntries

LogEvents == {"attached", "log", "disconnected", "heartbeat", "bogus"}

NextLog ==
    \/ \E e \in LogEvents, m \in {"m", ""} :
           Budget(MaxLogReq) /\ PostInternal(1, e, "u", m, "k")
    \/ Budget(MaxLogReq) /\ DeleteLogs(1, "k")
    \/ \E order \in UserOrders : ReaperPass(order)
    \/ Sleep(ReaperPeriod * TicksPerSecond, MaxSeconds * TicksPerSecond)

SpecLog == InitLog /\ [][NextLog]_vars

\* the step is a request that stores one entry
EventStores ==
    \/ \E e \in {"attached", "disconnected"}, m \in {"m", ""} :
           PostInternal(1, e, "u", m, "k")
    \/ PostInternal(1, "log", "u", "m", "k")

\* the step is a reaper pass that times the client out, and stores one entry
ReaperStores ==
    /\ \E order \in UserOrders : ReaperPass(order)
    /\ generic_clients' # generic_clients

\* s when it has at most n elements, else its last n
KeepLast(s, n) ==
    IF Len(s) <= n THEN s ELSE SubSeq(s, Len(s) - n + 1, Len(s))

\* C24: the log never holds more than max_entries entries, whatever
\* max_entries the server was started with; and a step that stores an entry
\* completes (the request is answered 200, the reaper task goes on) and
\* leaves the last max_entries of the old entries followed by the new one,
\* so on a full log the oldest is dropped and the others keep their order
C24_LogBounded ==
    /\ [](Len(logs) <= max_entries)
    /\ [][/\ EventStores => resp'[1].status = 200
          /\ ReaperStores => reaper_alive'
          /\ (EventStores \/ ReaperStores) =>
                 IF max_entries = 0 THEN logs' = <<>>
                 ELSE /\ logs' # <<>>
                      /\ logs'[Len(logs')].id = next_id
                      /\ logs' = KeepLast(Append(logs, logs'[Len(logs')]), max_entries)]_vars


(***************************************************************************)
(* SpecUnit: the storage functions of scanner.rs called one after another, *)
(* as the unit tests call them, on both places; finalize writes manifests. *)
(***************************************************************************)
\* JSON values to save: a scalar, an object, an array of a node with a
\* child, and arrays nested one level less deep than the parser's limit
\* and as deep as it
UnitValues ==
    {JNull, nodeB, chunkC, JDeep(RecursionLimit - 1), JDeep(RecursionLimit)}

NextUnit ==
    \/ \E p \in Targets, d \in UnitValues : Budget(MaxUnitCalls) /\ CallSaveChunk(1, p, d)
    \/ \E io_dir \in IoOutcomes, io_write \in IoOutcomes : Save_Write(1, io_dir, io_write)
    \/ \E p \in Targets : CallLoadFile(1, p, "services.json")
    \/ \E p \in Targets : Budget(MaxUnitCalls) /\ CallDeleteGame(1, p)
    \/ \E io \in IoOutcomes : Delete_Remove(1, io)
    \/ \E p \in Targets : Budget(MaxUnitCalls) /\ Complete_Begin(1, CompleteRequest(p, 1), "k")
    \/ Manifest_Load(1)
    \/ Manifest_Write(1, "ok", "ok")
    \/ Complete_Done(1)

SpecUnit == Init /\ [][NextUnit]_vars

\* C25: delete_game on a place that has no directory returns Ok, whatever
\* the file system does; and when delete_game returns Ok the place has no
\* manifest (game_exists is false), no scope file and no directory
C25_DeleteOnEmptyOk ==
    [][\A io \in IoOutcomes :
          Delete_Remove(1, io) =>
              LET p == wk[1].place_id
              IN  /\ p \notin dirs => resp'[1].status = 200
                  /\ resp'[1].status = 200 =>
                         /\ ~game_exists(manifests', p)
                         /\ p \notin dirs'
                         /\ \A f \in ScopeFiles : files'[p][f] = <<>>]_vars

\* the first call of all was delete_game, on storage that held nothing, and
\* it returned Ok
C25_Witness ==
    /\ nreq = 1
    /\ resp[1].op = "delete_game"
    /\ resp[1].status = 200
    /\ dirs = {}
    /\ \A p \in Targets : ~game_exists(manifests, p)

Line(fn, svc, req, text) == [fn |-> fn, svc |-> svc, req |-> req, text |-> text]

\* function W.A(x)
lineFnA ==
    Line(<<sWA>>, <<>>, <<>>,
         <<102, 117, 110, 99, 116, 105, 111, 110, 32, 87, 46, 65, 40, 120,
           41, 10>>)

\* local function B( y )
lineFnB ==
    Line(<<sB>>, <<>>, <<>>,
         <<108, 111, 99, 97, 108, 32, 102, 117, 110, 99, 116, 105, 111, 110,
           32, 66, 40, 32, 121, 32, 41, 10>>)

\* local f = function() return game:GetService("P") end
lineSvcP ==
    Line(<<>>, <<sP>>, <<>>,
         <<108, 111, 99, 97, 108, 32, 102, 32, 61, 32, 102, 117, 110, 99,
           116, 105, 111, 110, 40, 41, 32, 114, 101, 116, 117, 114, 110, 32,
           103, 97, 109, 101, 58, 71, 101, 116, 83, 101, 114, 118, 105, 99,
           101, 40, 34, 80, 34, 41, 32, 101, 110, 100, 10>>)

\* local M = require(W.C).new(game:GetService( 'M' ))
lineReqM ==
    Line(<<>>, <<sM>>, <<sWC>>,
         <<108, 111, 99, 97, 108, 32, 77, 32, 61, 32, 114, 101, 113, 117,
           105, 114, 101, 40, 87, 46, 67, 41, 46, 110, 101, 119, 40, 103, 97,
           109, 101, 58, 71, 101, 116, 83, 101, 114, 118, 105, 99, 101, 40,
           32, 39, 77, 39, 32, 41, 41, 10>>)

OutlineLines == {lineFnA, lineFnB, lineSvcP, lineReqM}

\* the text of a script, its lines one after the other
RECURSIVE SourceText(_)
SourceText(lines) ==
    IF lines = <<>> THEN <<>>
    ELSE Head(lines).text \o SourceText(Tail(lines))

OutlineInit ==
    /\ SysInit
    /\ hTree = JArr(<<>>)
    /\ hPerm = JArr(<<>>)
    /\ hHash = <<>>
    /\ hPermHash = <<>>
    /\ oSource \in SeqsUpTo(OutlineLines, MaxLines)
    /\ oOutline = <<>>
    /\ SpyIdle

\* generate_outline(source)
Outline ==
    /\ oOutline = <<>>
    /\ oOutline' = <<generate_outline(SourceText(oSource))>>
    /\ UNCHANGED <<hTree, hPerm, hHash, hPermHash, oSource, xvars, svars>>

SpecOutline == OutlineInit /\ [][Outline]_vars

\* the names the lines declare, in the order written
RECURSIVE Declared(_, _)
Declared(lines, kind) ==
    IF lines = <<>> THEN <<>>
    ELSE Head(lines)[kind] \o Declared(Tail(lines), kind)

Range(seq) == {seq[k] : k \in DOMAIN seq}

\* C27: for a source with exactly 2 function definitions, 2 distinct
\* service acquisitions and 1 dependency reference, generate_outline
\* returns functions of length 2 in declaration order, services of length 2
\* holding both names once each, and requires of length 1
C27_OutlineLists ==
    (/\ oOutline # <<>>
     /\ Len(Declared(oSource, "fn")) = 2
     /\ Cardinality(Range(Declared(oSource, "svc"))) = 2
     /\ Cardinality(Range(Declared(oSource, "req"))) = 1) =>
        LET o == oOutline[1]
            fns == Declared(oSource, "fn")
        IN  /\ Len(o.functions) = 2
            /\ \A k \in 1..2 : contains(o.functions[k], fns[k])
            /\ Len(o.services) = 2
            /\ Range(o.services) = Range(Declared(oSource, "svc"))
            /\ Len(o.requires) = 1
            /\ Range(o.requires) = Range(Declared(oSource, "req"))

\* the outline of a script that declares B before W.A, and acquires service
\* M and requires W.C twice each
C27_Witness ==
    /\ oOutline # <<>>
    /\ Declared(oSource, "fn") = <<sB, sWA>>
    /\ Declared(oSource, "svc") = <<sM, sP, sM>>
    /\ Declared(oSource, "req") = <<sWC, sWC>>
    /\ oOutline[1].functions = <<<<66, 40, 121, 41>>, <<87, 46, 65, 40, 120, 41>>>>
    /\ oOutline[1].services = <<sM, sP>>
    /\ oOutline[1].requires = <<sWC>>

(***************************************************************************)
(* The session and the files of a chunk submission that ends in an error.  *)
(***************************************************************************)
\* the handler of worker w has written a file of its chunk already: fewer
\* appends are left than the chunk asks for
WroteAlready(w) ==
    /\ wk[w].pc \in {"append_open", "append_write"}
    /\ Len(wk[w].todo) < Len(AppendJobs(wk[w].chunk_type, wk[w].data[1]))

\* the step ends a chunk submission of worker w, begun earlier, with an error
FailsLate(w) ==
    /\ wk[w].pc \in {"append_open", "append_write", "save_write"}
    /\ wk'[w].pc = "idle"
    /\ resp'[w].status = 500

\* the place has a session whose progress is "receiving <chunk_type>"
Receiving(scans, place_id, chunk_type) ==
    /\ scans[place_id] # <<>>
    /\ scans[place_id][1].progress = <<"receiving", chunk_type>>

\* an authenticated submission opens or updates the session before anything
\* else, and one with an unknown chunk type or a scripts payload that is not
\* an array is answered with an error at once, no file touched
RejectedAtOnce ==
    \A p \in Targets, c \in FrameChunks :
        ScanData_Begin(1, p, c.chunk_type, c.data, args_secret[1]) =>
            /\ Receiving(active_scans', p, c.chunk_type)
            /\ files' = files
            /\ c.chunk_type = "bogus" =>
                   wk'[1].pc = "idle" /\ resp'[1].status = 400
            /\ (c.chunk_type = "scripts" /\ c.data.t # "arr") =>
                   wk'[1].pc = "idle" /\ resp'[1].status = 500

\* C29: an authenticated chunk submission with an unknown chunk type, with a
\* scripts payload that is not an array, or whose file operation fails
\* returns an error, has persisted nothing of the chunk, and leaves the
\* place with a session whose progress is "receiving <chunk_type>"
C29_ErrorPersistsNothing ==
    [][/\ RejectedAtOnce
       /\ FailsLate(1) =>
              /\ files' = files
              /\ ~WroteAlready(1)
              /\ Receiving(active_scans', wk[1].place_id, wk[1].chunk_type)]_vars

\* C29 as it holds: the same, but a scripts chunk whose outlines were
\* appended to scripts.json before the append to scripts_full.json failed
\* leaves the outlines stored; nothing else of a failed chunk is stored
C29_ErrorKeepsSession ==
    [][/\ RejectedAtOnce
       /\ FailsLate(1) =>
              LET p == wk[1].place_id
              IN  /\ files' = files
                  /\ Receiving(active_scans', p, wk[1].chunk_type)
                  /\ WroteAlready(1) =>
                         /\ wk[1].chunk_type = "scripts"
                         /\ Head(wk[1].todo).file = "scripts_full.json"
                         /\ g_hist[p]["scripts.json"] # <<>>
                         /\ g_hist[p]["scripts.json"][Len(g_hist[p]["scripts.json"])]
                                = JArr(ScriptOutlines(wk[1].data[1].items))]_vars

\* the first request of all, a scripts chunk for place 1, ended with an
\* error after its outlines were stored and before its sources were
C29_Witness ==
    /\ nreq = 1
    /\ resp[1].op = "scan_data"
    /\ resp[1].status = 500
    /\ Receiving(active_scans, 1, "scripts")
    /\ files[1]["scripts.json"] # <<>>
    /\ files[1]["scripts_full.json"] = <<>>

(***************************************************************************)
(* The manifest a finalize returns.                                        *)
(***************************************************************************)
\* the fields of a GameManifest the server fills in itself
ServerFields == {"tree_hash", "scanned_at"}

\* C30: with one request at a time, the manifest a finalize returns has the
\* tree_hash of the whole tree file as it is then, which is the hash of the
\* concatenation of all tree chunks accepted since the place's storage was
\* last absent, and every field but tree_hash and scanned_at is the field
\* of that name in the request
C30_ManifestFromTreeAndRequest ==
    [][(Complete_Done(1) /\ wk[1].result_ok) =>
          LET p == wk[1].place_id
              req == wk[1].req[1]
              m == resp'[1].manifest[1]
              h == g_hist[p]["tree.json"]
          IN  /\ resp'[1].status = 200
              /\ m.tree_hash = compute_tree_hash(JArr(ConcatPayloads(h)))
              /\ files[p]["tree.json"] # <<>> =>
                     /\ files[p]["tree.json"][1].valid
                     /\ m.tree_hash = compute_tree_hash(files[p]["tree.json"][1].doc)
              /\ files[p]["tree.json"] = <<>> =>
                     h = <<>> /\ m.tree_hash = compute_tree_hash(JArr(<<>>))
              /\ DOMAIN m = DOMAIN req \cup ServerFields
              /\ \A f \in DOMAIN req : m[f] = req[f]]_vars

\* a finalize returned its manifest after the place was scanned with a tree
\* chunk, finalized and deleted: its hash is that of no records, not the
\* hash of the scan before the delete
C30_Witness ==
    /\ resp[1].op = "scan_complete"
    /\ resp[1].status = 200
    /\ g_hist[1]["tree.json"] = <<>>
    /\ Len(g_scans[1]) = 2
    /\ g_scans[1][1].chunks # <<>>
    /\ resp[1].manifest[1].tree_hash = compute_tree_hash(JArr(<<>>))
    /\ resp[1].manifest[1].tree_hash # g_scans[1][1].tree_hash

(***************************************************************************)
(* Finalize and the scope files.                                           *)
(***************************************************************************)
\* the step belongs to a finalize of worker w
FinalizeStep(w) ==
    \/ wk[w].pc \in {"manifest_load", "manifest_write", "complete_done"}
    \/ wk[w].pc = "idle" /\ wk'[w].pc = "manifest_load"

\* the elements of the array a scope file holds, none when it is absent
StoredItems(slot) == IF slot = <<>> THEN <<>> ELSE slot[1].doc.items

\* C31: no step of a finalize changes a scope file, and a chunk appended
\* after it leaves the file holding what it held, the earlier scan's data
\* included, followed by every element of the chunk, also the elements the
\* file holds already
C31_FinalizeKeepsFiles ==
    [][/\ FinalizeStep(1) => files' = files
       /\ (wk[1].pc = "append_write" /\ wk'[1].pc = "idle"
            /\ resp'[1].status = 200) =>
              LET p == wk[1].place_id
                  job == Head(wk[1].todo)
              IN  StoredItems(files'[p][job.file]) =
                      StoredItems(files[p][job.file])
                          \o ConcatPayloads(<<job.items>>)]_vars

\* the same tree chunk was accepted before and after a finalize: the tree
\* file holds its node twice
C31_Witness ==
    /\ Len(g_scans[1]) = 1
    /\ g_scans[1][1].chunks = <<chunkA>>
    /\ g_cur[1] = <<chunkA>>
    /\ manifests[1] # <<>>
    /\ resp[1].op = "scan_data" /\ resp[1].status = 200
    /\ StoredItems(files[1]["tree.json"]) = <<nodeA, nodeA>>

(***************************************************************************)
(* The scripts scope queried for original source.                          *)
(***************************************************************************)
\* the full-source records of the scripts that the outline query with the
\* filters of q returns and that have source: those whose path is the path
\* of an outline-file entry that passes the filters and carries an outline
SourcesOfMatching(full, entries, q) ==
    SelectSeq(full,
              LAMBDA r : \E k \in DOMAIN entries :
                  /\ entries[k].path = r.path
                  /\ entries[k].outline # <<>>
                  /\ ScriptKeep(entries[k], q))

\* C32: a scripts query with include_source and a path, class or search
\* filter returns exactly the full-source records of the scripts that match
\* the filters, the scripts the outline query with the same filters
\* returns, restricted to those with source
C32_SourceQueryMatchesOutlineQuery ==
    \A w \in AllWorkers :
        (/\ resp[w].op = "get_scope" /\ resp[w].status = 200
         /\ resp[w].sent[1].scope = "scripts"
         /\ resp[w].sent[1].q.include_source = <<TRUE>>
         /\ \/ resp[w].sent[1].q.path # <<>>
            \/ resp[w].sent[1].q.class # <<>>
            \/ resp[w].sent[1].q.search # <<>>
         /\ load_file(files[resp[w].place_id]["scripts.json"]) # <<>>) =>
            LET p == resp[w].place_id
                q == resp[w].sent[1].q
            IN  resp[w].data[1] =
                    JArr(SourcesOfMatching(
                             StoredItems(files[p]["scripts_full.json"]),
                             StoredItems(files[p]["scripts.json"]), q))

(***************************************************************************)
(* The tree filters and the levels of the tree.                            *)
(***************************************************************************)
\* the nodes below a node, at every depth
RECURSIVE Descendants(_)
Descendants(node) ==
    IF node.t = "obj" /\ node.children # <<>> /\ node.children[1].t = "arr" THEN
        UNION {{node.children[1].items[i]} \cup Descendants(node.children[1].items[i]) :
                  i \in DOMAIN node.children[1].items}
    ELSE {}

\* the node satisfies every supplied filter of a tree query
TreeSat(node, q) ==
    PathSat("tree", node, q) /\ ClassSat(node, q) /\ SearchSat("tree", node, q)

\* C33: a tree query without max_depth returns the stored top-level nodes
\* that satisfy the filters, each with all of its descendants as stored,
\* matching or not, and nothing else: a node below a top-level node that
\* fails the filters adds no entry, whether it satisfies them or not
C33_FiltersAtTopLevelOnly ==
    \A w \in AllWorkers :
        (/\ resp[w].op = "get_scope" /\ resp[w].status = 200
         /\ resp[w].sent[1].scope = "tree"
         /\ resp[w].sent[1].q.max_depth = <<>>) =>
            LET q == resp[w].sent[1].q
                stored == QueriedSlot(resp[w])[1].doc.items
                got == resp[w].data[1].items
            IN  /\ \A i \in DOMAIN got :
                       \E j \in DOMAIN stored :
                           /\ got[i] = stored[j]
                           /\ TreeSat(stored[j], q)
                           /\ Descendants(got[i]) = Descendants(stored[j])
                /\ Len(got) = Cardinality({j \in DOMAIN stored : TreeSat(stored[j], q)})

\* a tree query by class: a top-level node of another class is not returned
\* although a node below it has the class, and that node is nowhere in the
\* answer
C33_Witness ==
    /\ resp[1].op = "get_scope" /\ resp[1].status = 200
    /\ resp[1].sent[1].scope = "tree"
    /\ resp[1].sent[1].q.max_depth = <<>>
    /\ resp[1].sent[1].q.class # <<>>
    /\ resp[1].data[1].items # <<>>
    /\ LET q == resp[1].sent[1].q
           stored == QueriedSlot(resp[1])[1].doc.items
           got == resp[1].data[1].items
       IN  \E j \in DOMAIN stored :
               /\ ~TreeSat(stored[j], q)
               /\ \E d \in Descendants(stored[j]) :
                      /\ TreeSat(d, q)
                      /\ \A i \in DOMAIN got : d # got[i] /\ d \notin Descendants(got[i])


(***************************************************************************)
(* SpecReaper: one generic client and the reaper task on a clock finer     *)
(* than a second. The task runs its pass when its sleep has ended, before  *)
(* the clock goes on; the requests stop when their budget is spent.        *)
(***************************************************************************)
\* the events of a client's life
ReapEvents == {"attached", "heartbeat"}

\* the steps of the clock: a tick less than five seconds, and a tick more
ClockSteps == {5 * TicksPerSecond - 1, 5 * TicksPerSecond + 1}

\* time passes while the reaper sleeps, or when its task is gone
Wait(ticks) ==
    /\ reaper_alive => now < reaper_due
    /\ Sleep(ticks, MaxSeconds * TicksPerSecond)

NextReaper ==
    \/ \E e \in ReapEvents : Budget(MaxReapReq) /\ PostInternal(1, e, "u", "m", "k")
    \/ \E order \in UserOrders : ReaperPass(order)
    \/ \E d \in ClockSteps : Wait(d)

\* tokio wakes the task when its sleep has ended, and the clock goes on
SpecReaper ==
    /\ InitLog
    /\ [][NextReaper]_vars
    /\ WF_vars(\E order \in UserOrders : ReaperPass(order))
    /\ WF_vars(\E d \in ClockSteps : Wait(d))

\* the client is connected and its last heartbeat is more than 15 seconds old
Stale(u) ==
    /\ generic_clients[u] # <<>>
    /\ generic_clients[u][1].connected
    /\ now - generic_clients[u][1].last_heartbeat > TimeoutSecs * TicksPerSecond

\* the step stores exactly one entry, the timeout entry of the client
StoresTimeoutOf(u) ==
    /\ logs' # <<>>
    /\ logs' = KeepLast(Append(logs, logs'[Len(logs')]), max_entries)
    /\ logs'[Len(logs')].id = next_id
    /\ logs'[Len(logs')].username = u
    /\ logs'[Len(logs')].tags = <<"internal", "disconnected", "timeout", "generic">>

\* C34: a reaper pass marks a connected client disconnected, and stores
\* exactly one timeout entry for it, when its last heartbeat is more than 15
\* seconds old, and leaves a client alone whose last heartbeat is at most 15
\* seconds old; so a client that attached when the server started and sent
\* nothing since is eventually marked disconnected
C34_ReaperTimesOut ==
    /\ [][(\E order \in UserOrders : ReaperPass(order)) =>
              IF Stale("u")
              THEN /\ generic_clients'["u"] =
                          <<[generic_clients["u"][1] EXCEPT !.connected = FALSE]>>
                   /\ StoresTimeoutOf("u")
              ELSE /\ generic_clients' = generic_clients
                   /\ logs' = logs]_vars
    /\ (generic_clients["u"] # <<>> /\ generic_clients["u"][1].connected
            /\ generic_clients["u"][1].last_heartbeat = 0)
         ~> (generic_clients["u"] = <<>> \/ ~generic_clients["u"][1].connected
                \/ generic_clients["u"][1].last_heartbeat # 0)


(***************************************************************************)
(* SpecClients: the life of one generic client: its events, the reaper and *)
(* GET /clients.                                                           *)
(***************************************************************************)
ClientEvents == {"attached", "already_attached", "heartbeat", "log", "disconnected"}

NextClients ==
    \/ \E e \in ClientEvents, m \in {"m", ""} :
           Budget(MaxClientReq) /\ PostInternal(1, e, "u", m, "k")
    \/ \E order \in UserOrders : GetClients(1, order)
    \/ \E order \in UserOrders : ReaperPass(order)
    \/ Sleep(ReaperPeriod * TicksPerSecond, MaxSeconds * TicksPerSecond)

SpecClients == InitLog /\ [][NextClients]_vars

\* the client is in the map and connected
Connected(u) == generic_clients[u] # <<>> /\ generic_clients[u][1].connected

\* the client is in the map and marked disconnected
Disconnected(u) == generic_clients[u] # <<>> /\ ~generic_clients[u][1].connected

\* C35: on a client marked disconnected, a heartbeat, already_attached or
\* log event changes nothing but last_heartbeat and leaves it disconnected;
\* a client becomes connected by an attached event only; and GET /clients
\* lists the connected clients and no other
C35_OnlyAttachedReconnects ==
    [][/\ (/\ Disconnected("u")
           /\ \E e \in {"heartbeat", "already_attached", "log"}, m \in {"m", ""} :
                  PostInternal(1, e, "u", m, "k"))
          => /\ generic_clients'["u"] # <<>>
             /\ generic_clients'["u"][1] =
                    [generic_clients["u"][1] EXCEPT
                         !.last_heartbeat = generic_clients'["u"][1].last_heartbeat]
       /\ (~Connected("u") /\ Connected("u")')
          => \E m \in {"m", ""} : PostInternal(1, "attached", "u", m, "k")
       /\ (\E m \in {"m", ""} : PostInternal(1, "attached", "u", m, "k"))
          => Connected("u")'
       /\ (\E order \in UserOrders : GetClients(1, order))
          => resp'[1].data = IF Connected("u") THEN generic_clients["u"] ELSE <<>>]_vars

\* the client was disconnected by an event, a heartbeat came later, and GET
\* /clients does not list it
C35_Witness ==
    /\ Disconnected("u")
    /\ logs # <<>>
    /\ "disconnected" \in Range(logs[Len(logs)].tags)
    /\ logs[Len(logs)].timestamp < generic_clients["u"][1].last_heartbeat
    /\ resp[1].op = "get_clients"
    /\ resp[1].data = <<>>


(***************************************************************************)
(* SpecLocks: the RwLocks of AppState. Every handler and the reaper are    *)
(* the sequence of lock operations their code performs: a guard bound by   *)
(* let lives to the end of its block, a temporary guard to the end of its  *)
(* statement (of the condition, in a plain if). No guard is held across an *)
(* await. Two requests are served at a time, next to the reaper task.      *)
(***************************************************************************)
Acquire(lock, how) == <<"acquire", lock, how>>
Release(lock) == <<"release", lock>>

\* a temporary guard: taken and dropped within one statement
Brief(lock, how) == <<Acquire(lock, how), Release(lock)>>

\* store_entry: let mut logs = state.logs.write() to the end of the function
store_entry_guards == Brief("logs", "write")

\* xeno_fetch_clients: let logger_pids = state.logger_pids.read(), after the
\* last await, to the end of the function
xeno_fetch_clients_guards == Brief("logger_pids", "read")

\* the body of the reaper's loop for n stale clients: the clients guard is
\* held over the loop, the logs guard to the end of each client's block
RECURSIVE StaleBlocks(_)
StaleBlocks(n) == IF n = 0 THEN <<>> ELSE Brief("logs", "write") \o StaleBlocks(n - 1)

ReaperGuards(n) ==
    <<Acquire("generic_clients", "write")>> \o StaleBlocks(n)
        \o <<Release("generic_clients")>>

\* POST /internal: handle_generic_event and handle_xeno_event, the pid of
\* the user resolved
InternalGuards(mode, event) ==
    IF mode = "generic" THEN
        IF event \in {"already_attached", "heartbeat"} THEN
            Brief("generic_clients", "write")
        ELSE Brief("generic_clients", "write") \o store_entry_guards
    ELSE
        xeno_fetch_clients_guards \o
        (IF event = "log" THEN
             Brief("logger_pids", "read") \o Brief("logger_pids", "write")
         ELSE Brief("logger_pids", "write"))
        \o store_entry_guards

\* GET /spy/status taking its second guard with the first still held, the
\* other way round
SpyGuardsStatusHolds(mode, route) ==
    IF route = "detach" THEN
        IF mode = "generic" THEN
            Brief("spy_clients", "write") \o Brief("spy_subscriptions", "write")
        ELSE <<Acquire("spy_clients", "write"), Acquire("spy_subscriptions", "write"),
               Release("spy_subscriptions"), Release("spy_clients")>>
    ELSE IF route = "status" THEN
        <<Acquire("spy_subscriptions", "read"), Acquire("spy_clients", "read"),
          Release("spy_clients"), Release("spy_subscriptions")>>
    ELSE Brief("spy_subscriptions", "write")

\* the routes of spy.rs: detach, subscribe, unsubscribe (of one pid) and
\* status; attach takes no lock
SpyGuards(mode, route) ==
    IF route = "detach" THEN
        IF mode = "generic" THEN
            Brief("spy_clients", "write") \o Brief("spy_subscriptions", "write")
        ELSE <<Acquire("spy_clients", "write"), Acquire("spy_subscriptions", "write"),
               Release("spy_subscriptions"), Release("spy_clients")>>
    ELSE IF route = "status" THEN
        Brief("spy_clients", "read") \o Brief("spy_subscriptions", "read")
    ELSE Brief("spy_subscriptions", "write")

\* GET /logs and DELETE /logs
LogsGuards(route) ==
    IF route = "get_logs" THEN Brief("logs", "read") ELSE Brief("logs", "write")

\* GET /health
HealthGuards(mode) ==
    Brief("logs", "read") \o Brief("logger_pids", "read") \o
    (IF mode = "generic" THEN Brief("generic_clients", "read")
     ELSE xeno_fetch_clients_guards \o Brief("logger_pids", "write"))

\* GET /clients, POST /execute and POST /attach-logger
XenoGuards(mode, route) ==
    IF route = "get_clients" THEN
        IF mode = "generic" THEN Brief("generic_clients", "read")
        ELSE xeno_fetch_clients_guards
    ELSE IF route = "execute" THEN
        IF mode = "generic" THEN store_entry_guards
        ELSE xeno_fetch_clients_guards \o store_entry_guards
                 \o Brief("logger_pids", "read")
    ELSE
        IF mode = "generic" THEN <<>>
        ELSE xeno_fetch_clients_guards \o Brief("logger_pids", "read")

\* POST /scan/chunk, POST /scan/complete, DELETE /scan/cancel and
\* GET /scan/status
ScannerGuards(route) ==
    IF route = "status" THEN Brief("active_scans", "read")
    ELSE Brief("active_scans", "write")

\* what a request may run
HandlerGuards(mode) ==
    {InternalGuards(mode, e) : e \in ClientEvents}
        \cup {SpyGuards(mode, r) : r \in {"detach", "subscribe", "unsubscribe", "status"}}
        \cup {LogsGuards(r) : r \in {"get_logs", "delete_logs"}}
        \cup {HealthGuards(mode)}
        \cup {XenoGuards(mode, r) : r \in {"get_clients", "execute", "attach_logger"}}
        \cup {ScannerGuards(r) : r \in {"chunk", "status"}}

\* the threads that serve requests, and the reaper task
LockWorkers == {"w1", "w2"}
LockTasks == LockWorkers \cup {"reaper"}

\* the locks whose guard the task holds
HeldBy(t) == {tasks[t].held[k] : k \in DOMAIN tasks[t].held}

\* the task is about to take a lock
Wants(t, lock, how) ==
    /\ tasks[t].todo # <<>>
    /\ Head(tasks[t].todo) = Acquire(lock, how)

\* parking_lot's RwLock: a write guard excludes every other guard, and a
\* reader waits while a writer holds the lock or waits for it
CanAcquire(t, lock, how) ==
    IF how = "write" THEN
        \A u \in LockTasks : \A h \in HeldBy(u) : h[1] # lock
    ELSE
        /\ \A u \in LockTasks : <<lock, "write">> \notin HeldBy(u)
        /\ \A u \in LockTasks \ {t} : ~Wants(u, lock, "write")

\* a request arrives at a free worker
StartHandler(t, guards) ==
    /\ t \in LockWorkers
    /\ tasks[t].todo = <<>>
    /\ tasks' = [tasks EXCEPT ![t].todo = guards]
    /\ UNCHANGED <<hTree, hPerm, hHash, hPermHash, ovars, svars,
                   args_mode, spy_clients, spy_subscriptions, pending>>

\* the reaper's sleep ends with n stale clients
StartReaper(n) ==
    /\ args_mode = "generic"
    /\ tasks["reaper"].todo = <<>>
    /\ tasks' = [tasks EXCEPT !["reaper"].todo = ReaperGuards(n)]
    /\ UNCHANGED <<hTree, hPerm, hHash, hPermHash, ovars, svars,
                   args_mode, spy_clients, spy_subscriptions, pending>>

\* the task's next lock operation
LockStep(t) ==
    /\ tasks[t].todo # <<>>
    /\ LET op == Head(tasks[t].todo)
       IN  IF op[1] = "acquire" THEN
               /\ CanAcquire(t, op[2], op[3])
               /\ tasks' = [tasks EXCEPT ![t].todo = Tail(@),
                                         ![t].held = Append(@, <<op[2], op[3]>>)]
           ELSE
               tasks' = [tasks EXCEPT
                             ![t].todo = Tail(@),
                             ![t].held = SelectSeq(@, LAMBDA h : h[1] # op[2])]
    /\ UNCHANGED <<hTree, hPerm, hHash, hPermHash, ovars, svars,
                   args_mode, spy_clients, spy_subscriptions, pending>>

LocksInit ==
    /\ SysInit
    /\ hTree = JArr(<<>>)
    /\ hPerm = JArr(<<>>)
    /\ hHash = <<>>
    /\ hPermHash = <<>>
    /\ oSource = <<>>
    /\ oOutline = <<>>
    /\ args_mode \in {"generic", "xeno"}
    /\ tasks = [t \in LockTasks |-> [todo |-> <<>>, held |-> <<>>]]
    /\ spy_clients = {}
    /\ spy_subscriptions = <<>>
    /\ pending = <<>>

NextLocks ==
    \/ \E t \in LockWorkers : \E g \in HandlerGuards(args_mode) : StartHandler(t, g)
    \/ \E n \in 0..MaxStale : StartReaper(n)
    \/ \E t \in LockTasks : LockStep(t)

SpecLocks == LocksInit /\ [][NextLocks]_vars

\* the task has a lock operation left and cannot perform it
Waiting(t) ==
    /\ tasks[t].todo # <<>>
    /\ Head(tasks[t].todo)[1] = "acquire"
    /\ ~CanAcquire(t, Head(tasks[t].todo)[2], Head(tasks[t].todo)[3])

\* the locks a task holds, in the order it took them
HeldLocks(t) == [k \in DOMAIN tasks[t].held |-> tasks[t].held[k][1]]

\* C36: the handlers and the reaper never deadlock on the locks of AppState:
\* in no state are all the tasks that have a lock operation left waiting;
\* a task holds at most two locks, and then generic_clients before logs or
\* spy_clients before spy_subscriptions; and no task asks for a lock it holds
C36_NoLockDeadlock ==
    /\ (\E t \in LockTasks : tasks[t].todo # <<>>)
           => \E t \in LockTasks : tasks[t].todo # <<>> /\ ~Waiting(t)
    /\ \A t \in LockTasks :
           /\ Len(tasks[t].held) <= 2
           /\ Len(tasks[t].held) = 2 =>
                  HeldLocks(t) \in {<<"generic_clients", "logs">>,
                                    <<"spy_clients", "spy_subscriptions">>}
           /\ \A lock \in {h[1] : h \in HeldBy(t)}, how \in {"read", "write"} :
                  ~Wants(t, lock, how)

\* the reaper holds generic_clients and logs while one request waits for
\* generic_clients and another for logs
C36_Witness ==
    /\ HeldLocks("reaper") = <<"generic_clients", "logs">>
    /\ Waiting("w1") /\ Head(tasks["w1"].todo)[2] = "generic_clients"
    /\ Waiting("w2") /\ Head(tasks["w2"].todo)[2] = "logs"


(***************************************************************************)
(* SpecNest: compute_tree_hash called on two trees of any nesting.         *)
(***************************************************************************)
NestInit ==
    /\ SysInit
    /\ hTree \in {JArr(s) : s \in SeqsUpTo(HashNodes \cup {nodeE}, MaxNestTop)}
    /\ hPerm \in {JArr(s) : s \in SeqsUpTo(HashNodes \cup {nodeE}, MaxNestTop)}
    /\ hHash = <<>>
    /\ hPermHash = <<>>
    /\ OutlineIdle

\* compute_tree_hash(&other)
HashOther ==
    /\ hPermHash = <<>>
    /\ hPermHash' = <<compute_tree_hash(hPerm)>>
    /\ UNCHANGED <<hTree, hPerm, hHash, ovars, xvars, svars>>

NextNest == HashTree \/ HashOther

SpecNest == NestInit /\ [][NextNest]_vars

\* every object of a JSON value, at any depth below arrays and children
RECURSIVE ObjectsOf(_)
ObjectsOf(v) ==
    IF v.t = "arr" THEN
        IF v.items = <<>> THEN <<>>
        ELSE ObjectsOf(Head(v.items)) \o ObjectsOf(JArr(Tail(v.items)))
    ELSE IF v.t = "obj" THEN
        <<v>> \o (IF v.children = <<>> THEN <<>> ELSE ObjectsOf(v.children[1]))
    ELSE <<>>

\* the "class_name:name:path" records of the nodes that have a path
RecordsOf(tree) ==
    LET withPath == SelectSeq(ObjectsOf(tree), LAMBDA n : n.path # sEmpty)
    IN  [k \in DOMAIN withPath |->
             HashRecord(withPath[k].class_name, withPath[k].name, withPath[k].path)]

\* two sequences hold the same elements, each as many times
SameMultiset(a, b) ==
    \A x \in Range(a) \cup Range(b) :
        Cardinality({i \in DOMAIN a : a[i] = x}) = Cardinality({i \in DOMAIN b : b[i] = x})

\* C37: the records fed to the hasher are those of the nodes with a path,
\* whether or not the nodes above them have one; and two trees with the
\* same multiset of such records have the same hash, however they nest
C37_HashIgnoresNesting ==
    (hHash # <<>> /\ hPermHash # <<>>) =>
        /\ SameMultiset(collect_hash_entries(hTree), RecordsOf(hTree))
        /\ hHash[1].sha256_of = HasherInput(SortEntries(RecordsOf(hTree)))
        /\ SameMultiset(RecordsOf(hTree), RecordsOf(hPerm)) => hHash = hPermHash

\* a node without a path above a node with one, in a tree hashed like the
\* tree that holds the lower node at top level
C37_Witness ==
    /\ hHash # <<>>
    /\ hPermHash # <<>>
    /\ hTree = JArr(<<nodeD, nodeC>>)
    /\ hPerm = JArr(<<nodeC, nodeA>>)
    /\ hHash = hPermHash


(***************************************************************************)
(* SpecExtract: generate_outline called on scripts that exercise its seven *)
(* lists, their caps and their exclusions.                                 *)
(***************************************************************************)
\*   ev:FireServer("Frame")
lineRemote ==
    Line(<<>>, <<>>, <<>>,
         <<32, 32, 101, 118, 58, 70, 105, 114, 101, 83, 101, 114, 118, 101,
           114, 40, 34, 70, 114, 97, 109, 101, 34, 41, 10>>)

\* local ab = x:WaitForChild("pp")
lineLookup ==
    Line(<<>>, <<>>, <<>>,
         <<108, 111, 99, 97, 108, 32, 97, 98, 32, 61, 32, 120, 58, 87, 97,
           105, 116, 70, 111, 114, 67, 104, 105, 108, 100, 40, 34, 112, 112,
           34, 41, 10>>)

\* local v = game:GetService("PS")
lineFiller ==
    Line(<<>>, <<<<80, 83>>>>, <<>>,
         <<108, 111, 99, 97, 108, 32, 118, 32, 61, 32, 103, 97, 109, 101, 58,
           71, 101, 116, 83, 101, 114, 118, 105, 99, 101, 40, 34, 80, 83, 34,
           41, 10>>)

\* local é = "PS", the name the letter U+00E9
lineWide ==
    Line(<<>>, <<>>, <<>>,
         <<108, 111, 99, 97, 108, 32, 233, 32, 61, 32, 34, 80, 83, 34, 10>>)

\* t={"aa","ab",...}: a table of 51 different literals of two letters
blockStrings ==
    Line(<<>>, <<>>, <<>>,
         <<116, 61, 123, 34, 97, 97, 34, 44, 34, 97, 98, 34, 44, 34, 97, 99,
           34, 44, 34, 97, 100, 34, 44, 34, 97, 101, 34, 44, 34, 97, 102, 34,
           44, 34, 97, 103, 34, 44, 34, 97, 104, 34, 44, 34, 97, 105, 34, 44,
           34, 97, 106, 34, 44, 34, 97, 107, 34, 44, 34, 97, 108, 34, 44, 34,
           97, 109, 34, 44, 34, 97, 110, 34, 44, 34, 97, 111, 34, 44, 34, 97,
           112, 34, 44, 34, 97, 113, 34, 44, 34, 97, 114, 34, 44, 34, 97, 115,
           34, 44, 34, 97, 116, 34, 44, 34, 97, 117, 34, 44, 34, 97, 118, 34,
           44, 34, 97, 119, 34, 44, 34, 97, 120, 34, 44, 34, 97, 121, 34, 44,
           34, 97, 122, 34, 44, 34, 98, 97, 34, 44, 34, 98, 98, 34, 44, 34,
           98, 99, 34, 44, 34, 98, 100, 34, 44, 34, 98, 101, 34, 44, 34, 98,
           102, 34, 44, 34, 98, 103, 34, 44, 34, 98, 104, 34, 44, 34, 98, 105,
           34, 44, 34, 98, 106, 34, 44, 34, 98, 107, 34, 44, 34, 98, 108, 34,
           44, 34, 98, 109, 34, 44, 34, 98, 110, 34, 44, 34, 98, 111, 34, 44,
           34, 98, 112, 34, 44, 34, 98, 113, 34, 44, 34, 98, 114, 34, 44, 34,
           98, 115, 34, 44, 34, 98, 116, 34, 44, 34, 98, 117, 34, 44, 34, 98,
           118, 34, 44, 34, 98, 119, 34, 44, 34, 98, 120, 34, 44, 34, 98, 121,
           34, 125, 10>>)

\* local aa=0, local ab=0, ...: 21 lines that bind different names
blockVars ==
    Line(<<>>, <<>>, <<>>,
         <<108, 111, 99, 97, 108, 32, 97, 97, 61, 48, 10, 108, 111, 99, 97,
           108, 32, 97, 98, 61, 48, 10, 108, 111, 99, 97, 108, 32, 97, 99, 61,
           48, 10, 108, 111, 99, 97, 108, 32, 97, 100, 61, 48, 10, 108, 111,
           99, 97, 108, 32, 97, 101, 61, 48, 10, 108, 111, 99, 97, 108, 32,
           97, 102, 61, 48, 10, 108, 111, 99, 97, 108, 32, 97, 103, 61, 48,
           10, 108, 111, 99, 97, 108, 32, 97, 104, 61, 48, 10, 108, 111, 99,
           97, 108, 32, 97, 105, 61, 48, 10, 108, 111, 99, 97, 108, 32, 97,
           106, 61, 48, 10, 108, 111, 99, 97, 108, 32, 97, 107, 61, 48, 10,
           108, 111, 99, 97, 108, 32, 97, 108, 61, 48, 10, 108, 111, 99, 97,
           108, 32, 97, 109, 61, 48, 10, 108, 111, 99, 97, 108, 32, 97, 110,
           61, 48, 10, 108, 111, 99, 97, 108, 32, 97, 111, 61, 48, 10, 108,
           111, 99, 97, 108, 32, 97, 112, 61, 48, 10, 108, 111, 99, 97, 108,
           32, 97, 113, 61, 48, 10, 108, 111, 99, 97, 108, 32, 97, 114, 61,
           48, 10, 108, 111, 99, 97, 108, 32, 97, 115, 61, 48, 10, 108, 111,
           99, 97, 108, 32, 97, 116, 61, 48, 10, 108, 111, 99, 97, 108, 32,
           97, 117, 61, 48, 10>>)

ExtractLines == {lineRemote, lineLookup, lineFiller, lineWide, blockStrings, blockVars, lineFnA}

ExtractInit ==
    /\ SysInit
    /\ hTree = JArr(<<>>)
    /\ hPerm = JArr(<<>>)
    /\ hHash = <<>>
    /\ hPermHash = <<>>
    /\ oSource \in SeqsUpTo(ExtractLines, MaxExtractLines)
    /\ oOutline = <<>>
    /\ SpyIdle

SpecExtract == ExtractInit /\ [][Outline]_vars

\* no element of the list is in it twice
NoDuplicates(list) ==
    \A k, l \in DOMAIN list : k # l => list[k] # list[l]

\* where x is first in found
FirstAt(found, x) ==
    CHOOSE k \in DOMAIN found : found[k] = x /\ \A j \in 1..(k - 1) : found[j] # x

\* the list holds values of found, none twice, in the order in which they
\* are first found
FirstOccurrenceOrder(list, found) ==
    /\ NoDuplicates(list)
    /\ Range(list) \subseteq Range(found)
    /\ \A k, l \in DOMAIN list :
           k < l => FirstAt(found, list[k]) < FirstAt(found, list[l])

\* C38: the outline of every source text has requires, services,
\* remote_accesses, instance_refs, string_constants and top_level_vars free
\* of duplicates and in first-occurrence order; string_constants has at most
\* 50 entries, none a noise token or a captured service name; top_level_vars
\* has at most 20 entries, none of one character or less; functions has an
\* entry for every function definition, in the order of the text
C38_OutlineListsWellFormed ==
    oOutline # <<>> =>
        LET o == oOutline[1]
            src == SourceText(oSource)
            fns == Declared(oSource, "fn")
        IN  /\ FirstOccurrenceOrder(o.requires, FoundRequires(src))
            /\ FirstOccurrenceOrder(o.services, FoundServices(src))
            /\ FirstOccurrenceOrder(o.remote_accesses, FoundRemotes(src))
            /\ FirstOccurrenceOrder(o.instance_refs, FoundInstanceRefs(src))
            /\ FirstOccurrenceOrder(o.string_constants, FoundStrings(src))
            /\ FirstOccurrenceOrder(o.top_level_vars, FoundVars(src))
            /\ Len(o.string_constants) <= MaxStringConstants
            /\ \A x \in Range(o.string_constants) :
                   x \notin Noise /\ x \notin Range(o.services)
            /\ Len(o.top_level_vars) <= MaxTopLevelVars
            /\ \A x \in Range(o.top_level_vars) : Len(x) > 1
            /\ Len(o.functions) = Len(fns)
            /\ \A k \in DOMAIN fns : contains(o.functions[k], fns[k])

(***************************************************************************)
(* SpecSpy: the remote-spy routes, on a server in generic or in Xeno mode. *)
(* Attach, detach, subscribe and unsubscribe write a script into the       *)
(* exchange directory, which can fail; GET /spy/status reads the spy state.*)
(***************************************************************************)
MaxSpyReq == 4

\* the "path" members of the subscribe and unsubscribe bodies: "A", " B", " "
pathA == <<65>>
pathB == <<32, 66>>
pathBlank == <<32>>
SpyPaths == {pathA, pathB, pathBlank}

\* require_generic: Err(400) in Xeno mode
require_generic == args_mode # "xeno"

\* the file content a route writes: the script, under a "-- SIG:" line with
\* its HMAC when the server has a secret
FileContent(lua) ==
    IF args_secret # <<>> THEN <<HmacHex(lua, args_secret[1]), lua>> ELSE <<lua>>

\* spy_subscriptions.entry(key).or_default().insert(path)
InsertPath(subs, key, path) ==
    [k \in DOMAIN subs \cup {key} |->
        IF k \notin DOMAIN subs THEN {path}
        ELSE IF k = key THEN subs[k] \cup {path}
        ELSE subs[k]]

\* if let Some(subs) = spy_subscriptions.get_mut(key) { subs.remove(path) }
RemovePath(subs, key, path) ==
    [k \in DOMAIN subs |-> IF k = key THEN subs[k] \ {path} ELSE subs[k]]

\* what no spy route changes
SpyFrame ==
    UNCHANGED <<files, manifests, dirs, active_scans, now, wk, ghosts, lvars,
                hTree, hPerm, hHash, hPermHash, ovars, args_mode, tasks>>

\* POST /spy/attach that also records the client it sent the script to
PostAttachSpyTracks(w, provided, io) ==
    /\ wk[w].pc = "idle"
    /\ IF ~check_secret(provided) THEN
           /\ resp' = [resp EXCEPT ![w] = Response("attach_spy", 0, 401)]
           /\ UNCHANGED <<pending, spy_clients>>
       ELSE IF ~require_generic THEN
           /\ resp' = [resp EXCEPT ![w] = Response("attach_spy", 0, 400)]
           /\ UNCHANGED <<pending, spy_clients>>
       ELSE IF io = "ok" THEN
           /\ pending' = Append(pending, FileContent(<<"spy">>))
           /\ spy_clients' = spy_clients \cup {"generic"}
           /\ resp' = [resp EXCEPT ![w] = Response("attach_spy", 0, 200)]
       ELSE
           /\ resp' = [resp EXCEPT ![w] = Response("attach_spy", 0, 500)]
           /\ UNCHANGED <<pending, spy_clients>>
    /\ UNCHANGED spy_subscriptions
    /\ SpyFrame

\* POST /spy/attach: check_secret, require_generic, then the spy script is
\* written into pending/; io is the outcome of fs::write. The Xeno arm of
\* the match is behind require_generic and never runs
PostAttachSpy(w, provided, io) ==
    /\ wk[w].pc = "idle"
    /\ IF ~check_secret(provided) THEN
           /\ resp' = [resp EXCEPT ![w] = Response("attach_spy", 0, 401)]
           /\ UNCHANGED pending
       ELSE IF ~require_generic THEN
           /\ resp' = [resp EXCEPT ![w] = Response("attach_spy", 0, 400)]
           /\ UNCHANGED pending
       ELSE IF io = "ok" THEN
           /\ pending' = Append(pending, FileContent(<<"spy">>))
           /\ resp' = [resp EXCEPT ![w] = Response("attach_spy", 0, 200)]
       ELSE
           /\ resp' = [resp EXCEPT ![w] = Response("attach_spy", 0, 500)]
           /\ UNCHANGED pending
    /\ UNCHANGED <<spy_clients, spy_subscriptions>>
    /\ SpyFrame

\* POST /spy/detach: once the disconnect script is written, both spy
\* collections are cleared
PostDetachSpy(w, provided, io) ==
    /\ wk[w].pc = "idle"
    /\ IF ~check_secret(provided) THEN
           /\ resp' = [resp EXCEPT ![w] = Response("detach_spy", 0, 401)]
           /\ UNCHANGED <<pending, spy_clients, spy_subscriptions>>
       ELSE IF ~require_generic THEN
           /\ resp' = [resp EXCEPT ![w] = Response("detach_spy", 0, 400)]
           /\ UNCHANGED <<pending, spy_clients, spy_subscriptions>>
       ELSE IF io = "ok" THEN
           /\ pending' = Append(pending, FileContent(<<"disconnect">>))
           /\ spy_clients' = {}
           /\ spy_subscriptions' = <<>>
           /\ resp' = [resp EXCEPT ![w] = Response("detach_spy", 0, 200)]
       ELSE
           /\ resp' = [resp EXCEPT ![w] = Response("detach_spy", 0, 500)]
           /\ UNCHANGED <<pending, spy_clients, spy_subscriptions>>
    /\ SpyFrame

\* POST /spy/subscribe: the trimmed path must not be empty; once the script
\* is written the path is recorded under the key "generic"
PostSpySubscribe(w, provided, path, io) ==
    /\ wk[w].pc = "idle"
    /\ IF ~check_secret(provided) THEN
           /\ resp' = [resp EXCEPT ![w] = Response("spy_subscribe", 0, 401)]
           /\ UNCHANGED <<pending, spy_subscriptions>>
       ELSE IF ~require_generic \/ trim(path) = <<>> THEN
           /\ resp' = [resp EXCEPT ![w] = Response("spy_subscribe", 0, 400)]
           /\ UNCHANGED <<pending, spy_subscriptions>>
       ELSE IF io = "ok" THEN
           /\ pending' = Append(pending, FileContent(<<"subscribe", trim(path)>>))
           /\ spy_subscriptions' = InsertPath(spy_subscriptions, "generic", trim(path))
           /\ resp' = [resp EXCEPT ![w] =
                           [Response("spy_subscribe", 0, 200) EXCEPT !.sent = trim(path)]]
       ELSE
           /\ resp' = [resp EXCEPT ![w] = Response("spy_subscribe", 0, 500)]
           /\ UNCHANGED <<pending, spy_subscriptions>>
    /\ UNCHANGED spy_clients
    /\ SpyFrame

\* POST /spy/unsubscribe: the same checks; once the script is written the
\* path is taken out of the paths of "generic", when that key exists
PostSpyUnsubscribe(w, provided, path, io) ==
    /\ wk[w].pc = "idle"
    /\ IF ~check_secret(provided) THEN
           /\ resp' = [resp EXCEPT ![w] = Response("spy_unsubscribe", 0, 401)]
           /\ UNCHANGED <<pending, spy_subscriptions>>
       ELSE IF ~require_generic \/ trim(path) = <<>> THEN
           /\ resp' = [resp EXCEPT ![w] = Response("spy_unsubscribe", 0, 400)]
           /\ UNCHANGED <<pending, spy_subscriptions>>
       ELSE IF io = "ok" THEN
           /\ pending' = Append(pending, FileContent(<<"unsubscribe", trim(path)>>))
           /\ spy_subscriptions' = RemovePath(spy_subscriptions, "generic", trim(path))
           /\ resp' = [resp EXCEPT ![w] =
                           [Response("spy_unsubscribe", 0, 200) EXCEPT !.sent = trim(path)]]
       ELSE
           /\ resp' = [resp EXCEPT ![w] = Response("spy_unsubscribe", 0, 500)]
           /\ UNCHANGED <<pending, spy_subscriptions>>
    /\ UNCHANGED spy_clients
    /\ SpyFrame

\* GET /spy/status: no secret and no mode is asked; "active" is
\* !clients.is_empty(), "clients" the members of spy_clients and
\* "subscriptions" the map as it stands
GetSpyStatus(w) ==
    /\ wk[w].pc = "idle"
    /\ resp' = [resp EXCEPT ![w] =
                    [Response("spy_status", 0, 200) EXCEPT
                         !.data = [active |-> spy_clients # {},
                                   clients |-> spy_clients,
                                   subscriptions |-> spy_subscriptions]]]
    /\ UNCHANGED <<pending, spy_clients, spy_subscriptions, nreq>>
    /\ SpyFrame

SpyInit ==
    /\ SysInit
    /\ hTree = JArr(<<>>)
    /\ hPerm = JArr(<<>>)
    /\ hHash = <<>>
    /\ hPermHash = <<>>
    /\ oSource = <<>>
    /\ oOutline = <<>>
    /\ args_mode \in {"generic", "xeno"}
    /\ tasks = <<>>
    /\ spy_clients = {}
    /\ spy_subscriptions = <<>>
    /\ pending = <<>>

NextSpy ==
    \/ \E k \in {"k", ""}, io \in IoOutcomes :
           Budget(MaxSpyReq) /\ PostAttachSpy(1, k, io)
    \/ \E k \in {"k", ""}, io \in IoOutcomes :
           Budget(MaxSpyReq) /\ PostDetachSpy(1, k, io)
    \/ \E k \in {"k", ""}, path \in SpyPaths, io \in IoOutcomes :
           Budget(MaxSpyReq) /\ PostSpySubscribe(1, k, path, io)
    \/ \E k \in {"k", ""}, path \in SpyPaths, io \in IoOutcomes :
           Budget(MaxSpyReq) /\ PostSpyUnsubscribe(1, k, path, io)
    \/ GetSpyStatus(2)

SpecSpy == SpyInit /\ [][NextSpy]_vars

\* C39: no operation inserts into spy_clients: the set is empty in every
\* reachable state, and every answer of GET /spy/status reports active =
\* false with no clients, also after a successful spy attach and after
\* successful subscriptions
C39_SpyClientsStayEmpty ==
    /\ spy_clients = {}
    /\ \A w \in AllWorkers :
           resp[w].op = "spy_status" =>
               /\ resp[w].data.active = FALSE
               /\ resp[w].data.clients = {}

\* the status asked after a spy attach and a later subscription succeeded:
\* both scripts are in pending/ and the answer lists the subscribed path
C39_Witness ==
    /\ resp[1].op = "spy_subscribe" /\ resp[1].status = 200
    /\ resp[2].op = "spy_status"
    /\ \E i, j \in DOMAIN pending :
           /\ i < j
           /\ pending[i][Len(pending[i])] = <<"spy">>
           /\ pending[j][Len(pending[j])] = <<"subscribe", pathA>>
    /\ DOMAIN resp[2].data.subscriptions = {"generic"}
    /\ pathA \in resp[2].data.subscriptions["generic"]

(***************************************************************************)
(* SpecScripts: scripts chunks for one place, one request at a time, the   *)
(* file operations of each free to fail.                                   *)
(***************************************************************************)
MaxScriptReq == 3

scriptC == JScript(sC, sWC, <<67>>)

\* chunks of records with and without source, in both orders, an empty
\* chunk, and a payload that is no array
ScriptChunks ==
    {JArr(<<scriptA, scriptB>>), JArr(<<scriptB, scriptC>>), JArr(<<scriptC, scriptA>>),
     JArr(<<>>), scriptA}

NextScripts ==
    \/ \E d \in ScriptChunks :
           Budget(MaxScriptReq) /\ ScanData_Begin(1, 1, "scripts", d, "k")
    \/ \E io \in IoOutcomes : Append_Open(1, io)
    \/ \E io \in IoOutcomes : Append_Write(1, io)

SpecScripts == Init /\ [][NextScripts]_vars

\* the "path" members of a stored array, in order
PathsOf(items) == [i \in DOMAIN items |-> items[i].path]

\* no request is running, and every scripts chunk that stored anything for
\* the place since its script files were absent stored both of its arrays
AllStoredWhole(p) ==
    /\ \A w \in AllWorkers : wk[w].pc = "idle"
    /\ Len(g_hist[p]["scripts.json"]) = Len(g_hist[p]["scripts_full.json"])

\* C40: after scripts chunks submitted one after another to a place whose
\* script files were absent, each of them successful, the paths of the
\* full-source file are, in order, the paths of the outline-file entries
\* that carry an outline
C40_SourcesMatchOutlines ==
    \A p \in Targets :
        AllStoredWhole(p) =>
            PathsOf(StoredItems(files[p]["scripts_full.json"]))
                = PathsOf(SelectSeq(StoredItems(files[p]["scripts.json"]),
                                    LAMBDA e : e.outline # <<>>))

\* three chunks stored in full: the outline file holds six entries, two of
\* them without outline, and the source file four records of three paths
C40_Witness ==
    /\ AllStoredWhole(1)
    /\ Len(g_hist[1]["scripts.json"]) = 3
    /\ resp[1].op = "scan_data" /\ resp[1].status = 200
    /\ Len(StoredItems(files[1]["scripts.json"])) = 6
    /\ PathsOf(StoredItems(files[1]["scripts_full.json"])) = <<sWA, sWC, sWC, sWA>>

====
